---------------------------- MODULE Spec2Model ----------------------------
(***************************************************************************)
(* Tenant lifecycle synchronisation of jvelezc/twenty-multitenant.         *)
(*                                                                         *)
(* Data plane (CRM, PostgreSQL + NestJS):                                  *)
(*   core.workspace, core.webhook_config, core.webhook_queue, the          *)
(*   notify_workspace_* triggers, core.send_webhook,                       *)
(*   core.retry_failed_webhooks and TenantAdminService.                    *)
(* Control plane (Supabase edge functions):                                *)
(*   crm.tenants, tenant-create and the crm-webhook receiver.              *)
(*                                                                         *)
(* A nullable column holds <<>> (NULL) or <<v>> (the value v).             *)
(***************************************************************************)
EXTENDS Integers, Sequences, FiniteSets, TLC

VARIABLES
    now,              \* the wall clock, in seconds (NOW(), Date.now()/1000)
    workspace,        \* core.workspace: workspace id -> row, or NoRow
    webhook_config,   \* core.webhook_config: [url, secret]
    webhook_queue,    \* core.webhook_queue: rows in insertion order, id = index
    http_requests,    \* pg_net's request queue: what net.http_post has queued
    http_response,    \* pg_net's answer for each request, "none" until it comes
    tenants,          \* crm.tenants: rows in insertion order, id = index
    WEBHOOK_SECRET,   \* Deno.env WEBHOOK_SECRET of the crm-webhook function
    tc,               \* the tenant-create request in progress
    drainer,          \* the retry_failed_webhooks calls in progress (batch:
                      \*   history, the rows the last call selected)
    ack,              \* history: the last request crm-webhook answered
    handled,          \* history: how often each pg_net request reached crm-webhook
    ops,              \* history: data-plane commands run, and events they lost
    deliveries,       \* history: per queue row, the event it retries, the
                      \*   times drain re-sent it and its failed deliveries
    codec,            \* the CRM's WebhookSignatureService: its configured
                      \*   secret, and (history) the header it last issued
                      \*   and the last verification with its answer
    deleted,          \* history: the workspace ids whose deletion an admin
                      \*   endpoint has confirmed to its caller
    race,             \* the tenant-create requests that run at the same time
    setup,            \* SetupController: the lock file, .env.local and the initialize requests
    userWorkspace,    \* core.userWorkspace: the links [userId, workspaceId]
    schema,           \* the workspace schemas (names) and the drops that failed (warnings)
    stats,            \* getGlobalStats: the request in progress, its counts and its answer
    sync_queue,       \* crm.sync_queue: rows in insertion order
    auth,             \* SupabaseAuthController: core.user, and (history) the login tokens issued
    guard             \* SaasAdminKeyGuard: the server's SAAS_ADMIN_KEY, the
                      \*   x-saas-admin-key of the request at the controller
                      \*   and what canActivate made of it

vars == << now, workspace, webhook_config, webhook_queue, http_requests,
           http_response, tenants, WEBHOOK_SECRET, tc, drainer, ack, handled,
           ops, deliveries, codec, deleted, race, setup, userWorkspace,
           schema,
           stats,
           sync_queue,
           auth, guard >>

-----------------------------------------------------------------------------
(* Bounds of the model *)

MaxTime == 1          \* Tick stops here
MaxWs == 2            \* workspace ids the data plane may hand out
MaxOps == 2           \* data-plane commands issued in one behaviour
MaxDeliveries == 2    \* times the network may hand one request to the receiver
MaxQueue == 4         \* rows of core.webhook_queue
MaxRetries == 2       \* no drain begins over a row that was re-sent this often

(* Program constants *)

DEFAULT_MAX_ATTEMPTS == 5       \* webhook_queue.max_attempts DEFAULT 5
RETRY_BASE_SECONDS == 60        \* INTERVAL '1 minute' * POWER(2, attempts)
BATCH_LIMIT == 100              \* retry_failed_webhooks: LIMIT 100
SYNC_MAX_ATTEMPTS == 3          \* crm.sync_queue: max_attempts INT DEFAULT 3
TOLERANCE_SECONDS == 300        \* crm-webhook verifySignature: > 300
SHA256_HEX_LENGTH == 64         \* crm-webhook verifySignature: sig.length === 64

DefaultWebhookUrl == "https://your-project.supabase.co/functions/v1/crm-webhook"
DefaultSecret == "change-me-in-production"
ConfiguredUrl == "https://acme.supabase.co/functions/v1/crm-webhook"
RealSecret == "whsec"

Subdomains == {"acme"}
Reasons == {"non-payment", "abuse"}
NULL == << >>
Some(v) == << v >>

WsIds == 1..MaxWs

Drainers == {"d1", "d2"}

UNDEFINED == << << >>, << >> >>   \* a key the JSON object does not carry

RECURSIVE Pow2(_)
Pow2(n) == IF n <= 0 THEN 1 ELSE 2 * Pow2(n - 1)

-----------------------------------------------------------------------------
(* Data plane: core.webhook_queue and core.send_webhook *)

\* hmac(message, key, 'sha256') / crypto HMAC: an uninterpreted value that is
\* equal to another one only for the same key and the same message; its hex
\* encoding is 64 characters long.
Hmac(key, timestamp, text) ==
    [ key |-> key, timestamp |-> timestamp, text |-> text,
      length |-> SHA256_HEX_LENGTH ]

\* INSERT INTO core.webhook_queue (webhook_url, event_type, payload, status):
\* the other columns take the table's defaults.
QueueRow(url, event_type, payload, status, t) ==
    [ webhook_url |-> url, event_type |-> event_type, payload |-> payload,
      status |-> status, attempts |-> 0, max_attempts |-> DEFAULT_MAX_ATTEMPTS,
      last_error |-> NULL, created_at |-> t, sent_at |-> NULL,
      next_retry_at |-> Some(t) ]

\* v_webhook_url IS NULL OR v_webhook_url = '<the placeholder>'
NotConfigured(cfg) == cfg.url = NULL \/ cfg.url = Some(DefaultWebhookUrl)

\* The request net.http_post queues: url, the two headers and the JSON body.
HttpPost(cfg, event_type, payload, v_timestamp, v_signature, queue_id) ==
    [ url |-> cfg.url[1],
      signature |-> Some([timestamp |-> v_timestamp, sig |-> v_signature]),
      event_header |-> Some(event_type),
      body |-> [event |-> Some(event_type), timestamp |-> v_timestamp,
                payload |-> Some(payload)],
      queue_id |-> queue_id ]

\* The handler's UPDATE without its WHERE id = v_queue_id
MarkFailedAll(q, v_queue_id, t) ==
    [ i \in DOMAIN q |->
        [ q[i] EXCEPT !.status = "failed",
                      !.last_error = Some("SQLERRM"),
                      !.attempts = q[i].attempts + 1,
                      !.next_retry_at =
                          Some(t + RETRY_BASE_SECONDS * Pow2(q[i].attempts)) ] ]

\* The handler's UPDATE core.webhook_queue SET status = 'failed', ...
\* WHERE id = v_queue_id, run against table q. The SET expressions read the
\* row's old values.
MarkFailed(q, v_queue_id, t) ==
    [ i \in DOMAIN q |->
        IF i = v_queue_id
        THEN [ q[i] EXCEPT !.status = "failed",
                           !.last_error = Some("SQLERRM"),
                           !.attempts = q[i].attempts + 1,
                           !.next_retry_at =
                               Some(t + RETRY_BASE_SECONDS * Pow2(q[i].attempts)) ]
        ELSE q[i] ]

\* core.send_webhook(p_event_type, p_payload) on queue q and pg_net queue
\* reqs at time t. raises: whether hmac() or net.http_post raises.
\* PL/pgSQL runs a block that has an EXCEPTION clause in a subtransaction:
\* when the handler is entered, every change the block made to the database
\* (the INSERT and the queued request) is rolled back, v_queue_id keeps its
\* value, and the handler's UPDATE runs against the rolled-back table.
send_webhook(q, reqs, cfg, t, p_event_type, p_payload, raises) ==
    IF NotConfigured(cfg)
    THEN [ queue |-> Append(q, QueueRow(IF cfg.url = NULL THEN "not-configured"
                                                         ELSE cfg.url[1],
                                        p_event_type, p_payload, "pending", t)),
           requests |-> reqs ]
    ELSE LET v_timestamp == t
             v_signature == Hmac(cfg.secret, v_timestamp, p_payload)
             v_queue_id  == Len(q) + 1
             inserted    == Append(q, QueueRow(cfg.url[1], p_event_type,
                                               p_payload, "sending", t))
             posted      == Append(reqs, HttpPost(cfg, p_event_type, p_payload,
                                                  v_timestamp, v_signature,
                                                  v_queue_id))
             updated     == [ inserted EXCEPT ![v_queue_id].status = "sent",
                                              ![v_queue_id].sent_at = Some(t) ]
             rolled_back == q
         IN  IF raises
             THEN [ queue |-> MarkFailed(rolled_back, v_queue_id, t),
                    requests |-> reqs ]
             ELSE [ queue |-> updated, requests |-> posted ]

-----------------------------------------------------------------------------
(* Data plane: core.workspace, its triggers and TenantAdminService *)

Payload(id, row, disabled_at, disabled_reason) ==
    [ crm_workspace_id |-> Some(id), subdomain |-> Some(row.subdomain),
      disabled_at |-> disabled_at, disabled_reason |-> disabled_reason ]

\* AFTER INSERT ON core.workspace (display_name and created_at are carried
\* too; the receiver reads neither)
notify_workspace_created(q, reqs, cfg, t, id, new_row, raises) ==
    send_webhook(q, reqs, cfg, t, "tenant.created",
                 Payload(id, new_row, UNDEFINED, UNDEFINED), raises)

\* AFTER UPDATE ON core.workspace
notify_workspace_updated(q, reqs, cfg, t, id, old_row, new_row, raises) ==
    IF old_row.isDisabled # new_row.isDisabled
    THEN IF new_row.isDisabled
         THEN send_webhook(q, reqs, cfg, t, "tenant.disabled",
                           Payload(id, new_row, new_row.disabledAt,
                                   new_row.disabledReason),
                           raises)
         ELSE send_webhook(q, reqs, cfg, t, "tenant.enabled",
                           Payload(id, new_row, UNDEFINED, UNDEFINED), raises)
    ELSE [ queue |-> q, requests |-> reqs ]

\* AFTER DELETE ON core.workspace
notify_workspace_deleted(q, reqs, cfg, t, id, old_row, raises) ==
    send_webhook(q, reqs, cfg, t, "tenant.deleted",
                 Payload(id, old_row, UNDEFINED, UNDEFINED), raises)

\* Repository.save of a loaded entity: TypeORM writes the columns whose entity
\* value differs from the loaded one and skips every property that is
\* undefined (only null clears a column).
Save(loaded, entity) ==
    [ loaded EXCEPT
        !.isDisabled = entity.isDisabled,
        !.disabledAt = IF entity.disabledAt = UNDEFINED
                       THEN loaded.disabledAt ELSE entity.disabledAt,
        !.disabledReason = IF entity.disabledReason = UNDEFINED
                           THEN loaded.disabledReason ELSE entity.disabledReason ]

WsRow(subdomain) ==
    [ exists |-> TRUE, used |-> TRUE, subdomain |-> subdomain,
      isDisabled |-> FALSE, disabledAt |-> NULL, disabledReason |-> NULL ]
Unused == [ exists |-> FALSE, used |-> FALSE ]
Deleted == [ exists |-> FALSE, used |-> TRUE ]

Exists(ws, id) == id \in WsIds /\ ws[id].exists
SubdomainTaken(ws, s) == \E id \in WsIds : ws[id].exists /\ ws[id].subdomain = s
FreshIds(ws) == { id \in WsIds : ~ws[id].used }
\* gen_random_uuid(): an id no row ever had
FreshId(ws) == CHOOSE id \in FreshIds(ws) : \A j \in FreshIds(ws) : id <= j

Failed(ws, q, reqs) ==
    [ ok |-> FALSE, id |-> NULL, workspace |-> ws, queue |-> q, requests |-> reqs ]
Done(id, ws, sent) ==
    [ ok |-> TRUE, id |-> Some(id), workspace |-> ws, queue |-> sent.queue,
      requests |-> sent.requests ]

\* TenantAdminService.createTenant: the subdomain check and the workspace
\* INSERT with its trigger (the user and the user-workspace link follow).
createTenant(ws, q, reqs, cfg, t, subdomain, raises) ==
    IF SubdomainTaken(ws, subdomain)
    THEN Failed(ws, q, reqs)
    ELSE LET id == FreshId(ws)
             savedWorkspace == WsRow(subdomain)
         IN  Done(id, [ws EXCEPT ![id] = savedWorkspace],
                  notify_workspace_created(q, reqs, cfg, t, id, savedWorkspace,
                                           raises))

\* save(): an UPDATE (and its trigger) only when a column changed
SaveWorkspace(ws, q, reqs, cfg, t, id, entity, raises) ==
    LET saved == Save(ws[id], entity)
    IN  IF saved = ws[id]
        THEN Done(id, ws, [queue |-> q, requests |-> reqs])
        ELSE Done(id, [ws EXCEPT ![id] = saved],
                  notify_workspace_updated(q, reqs, cfg, t, id, ws[id], saved,
                                           raises))

\* TenantAdminService.disableTenant(tenantId, reason?)
disableTenant(ws, q, reqs, cfg, t, id, reason, raises) ==
    IF ~Exists(ws, id)
    THEN Failed(ws, q, reqs)
    ELSE SaveWorkspace(ws, q, reqs, cfg, t, id,
                       [ ws[id] EXCEPT !.isDisabled = TRUE,
                                       !.disabledAt = Some(t),
                                       !.disabledReason = reason ],
                       raises)

\* TenantAdminService.enableTenant(tenantId)
enableTenant(ws, q, reqs, cfg, t, id, raises) ==
    IF ~Exists(ws, id)
    THEN Failed(ws, q, reqs)
    ELSE SaveWorkspace(ws, q, reqs, cfg, t, id,
                       [ ws[id] EXCEPT !.isDisabled = FALSE,
                                       !.disabledAt = UNDEFINED,
                                       !.disabledReason = UNDEFINED ],
                       raises)

\* TenantAdminService.deleteTenant(tenantId): the workspace DELETE and its
\* trigger (the links and the schema are dropped before it).
deleteTenant(ws, q, reqs, cfg, t, id, raises) ==
    IF ~Exists(ws, id)
    THEN Failed(ws, q, reqs)
    ELSE Done(id, [ws EXCEPT ![id] = Deleted],
              notify_workspace_deleted(q, reqs, cfg, t, id, ws[id], raises))

-----------------------------------------------------------------------------
(* Control plane: crm.tenants and the crm-webhook edge function *)

TenantRow(subdomain, t) ==
    [ subdomain |-> subdomain, crm_workspace_id |-> NULL, status |-> "pending",
      disabled_at |-> NULL, disabled_reason |-> NULL, updated_at |-> t ]

Abs(n) == IF n < 0 THEN 0 - n ELSE n

\* verifySignature(payload, signature, secret): the header is split at '.',
\* the timestamp must be within 300 s, and then only the length of the
\* signature is looked at; expectedSig is computed and never compared.
verifySignature(payload, signature, secret, t) ==
    LET timestampNum == signature.timestamp
        expectedSig  == Hmac(secret, signature.timestamp, payload)
    IN  IF Abs(t - timestampNum) > TOLERANCE_SECONDS
        THEN FALSE
        ELSE signature.sig.length = SHA256_HEX_LENGTH

\* Lines 79-95: 0 when the request may pass, else the status answered.
SignatureGate(req, secret, t) ==
    IF secret # NULL /\ secret # Some(DefaultSecret)
    THEN IF req.signature = NULL
         THEN 401
         ELSE IF ~verifySignature(req.body, req.signature[1], secret[1], t)
              THEN 401
              ELSE 0
    ELSE 0

\* supabase.from('tenants').update(set).eq(column, value)
UpdateWhere(tn, Match(_), Set(_)) ==
    [ i \in DOMAIN tn |-> IF Match(tn[i]) THEN Set(tn[i]) ELSE tn[i] ]

\* crm_workspace_id UUID UNIQUE
UniqueWorkspaceId(tn) ==
    \A i, j \in DOMAIN tn :
        (i # j /\ tn[i].crm_workspace_id # NULL)
            => tn[i].crm_workspace_id # tn[j].crm_workspace_id

\* .eq(column, value): NULL and a missing value match no row
EqId(row, value) == value # NULL /\ value # UNDEFINED /\ row.crm_workspace_id = value
EqSubdomain(row, value) == value = Some(row.subdomain)

\* tenant.created that sets the status and forgets the workspace id
OnTenantCreatedStatusOnly(tn, payload, t) ==
    [ tenants |-> UpdateWhere(tn,
                      LAMBDA r : EqSubdomain(r, payload.subdomain),
                      LAMBDA r : [ r EXCEPT !.status = "active",
                                            !.updated_at = t ]),
      status |-> 200 ]

\* case 'tenant.created' (a unique violation is the error answered with 500;
\* a key whose value is undefined is not sent, so its column is not written)
OnTenantCreated(tn, payload, t) ==
    LET upd == UpdateWhere(tn,
                   LAMBDA r : EqSubdomain(r, payload.subdomain),
                   LAMBDA r : [ r EXCEPT !.crm_workspace_id =
                                            IF payload.crm_workspace_id = UNDEFINED
                                            THEN r.crm_workspace_id
                                            ELSE payload.crm_workspace_id,
                                         !.status = "active",
                                         !.updated_at = t ])
    IN  IF UniqueWorkspaceId(upd)
        THEN [ tenants |-> upd, status |-> 200 ]
        ELSE [ tenants |-> tn, status |-> 500 ]

\* tenant.disabled that stamps disabled_at with the time of receipt
OnTenantDisabledNow(tn, payload, t) ==
    [ tenants |->
        UpdateWhere(tn,
            LAMBDA r : EqId(r, payload.crm_workspace_id),
            LAMBDA r : [ r EXCEPT !.status = "disabled",
                                  !.disabled_at = Some(t),
                                  !.disabled_reason = payload.disabled_reason,
                                  !.updated_at = t ]),
      status |-> 200 ]

\* case 'tenant.disabled'
OnTenantDisabled(tn, payload, t) ==
    [ tenants |->
        UpdateWhere(tn,
            LAMBDA r : EqId(r, payload.crm_workspace_id),
            LAMBDA r : [ r EXCEPT
                !.status = "disabled",
                !.disabled_at = IF payload.disabled_at \in {NULL, UNDEFINED}
                                THEN Some(t) ELSE payload.disabled_at,
                !.disabled_reason = IF payload.disabled_reason = UNDEFINED
                                    THEN r.disabled_reason
                                    ELSE payload.disabled_reason,
                !.updated_at = t ]),
      status |-> 200 ]

\* case 'tenant.enabled'
OnTenantEnabled(tn, payload, t) ==
    [ tenants |->
        UpdateWhere(tn,
            LAMBDA r : EqId(r, payload.crm_workspace_id),
            LAMBDA r : [ r EXCEPT !.status = "active",
                                  !.disabled_at = NULL,
                                  !.disabled_reason = NULL,
                                  !.updated_at = t ]),
      status |-> 200 ]

\* case 'tenant.deleted'
OnTenantDeleted(tn, payload, t) ==
    [ tenants |->
        UpdateWhere(tn,
            LAMBDA r : EqId(r, payload.crm_workspace_id),
            LAMBDA r : [ r EXCEPT !.status = "deleted",
                                  !.crm_workspace_id = NULL,
                                  !.updated_at = t ]),
      status |-> 200 ]

\* The handler with a switch that answers 400 in its default case
HandleWebhookKnownOnly(tn, req, secret, t) ==
    LET gate    == SignatureGate(req, secret, t)
        event   == IF req.body.event # NULL THEN req.body.event
                                            ELSE req.event_header
        payload == req.body.payload
    IN  IF gate # 0 THEN [ tenants |-> tn, status |-> gate ]
        ELSE IF event = NULL \/ payload = NULL
        THEN [ tenants |-> tn, status |-> 400 ]
        ELSE CASE event[1] = "tenant.created"  -> OnTenantCreated(tn, payload[1], t)
               [] event[1] = "tenant.disabled" -> OnTenantDisabled(tn, payload[1], t)
               [] event[1] = "tenant.enabled"  -> OnTenantEnabled(tn, payload[1], t)
               [] event[1] = "tenant.deleted"  -> OnTenantDeleted(tn, payload[1], t)
               [] OTHER -> [ tenants |-> tn, status |-> 400 ]

\* The serve handler of crm-webhook: the table after the request and the
\* HTTP status answered.
HandleWebhook(tn, req, secret, t) ==
    LET gate    == SignatureGate(req, secret, t)
        event   == IF req.body.event # NULL THEN req.body.event
                                            ELSE req.event_header
        payload == req.body.payload
    IN  IF gate # 0 THEN [ tenants |-> tn, status |-> gate ]
        ELSE IF event = NULL \/ payload = NULL
        THEN [ tenants |-> tn, status |-> 400 ]
        ELSE CASE event[1] = "tenant.created"  -> OnTenantCreated(tn, payload[1], t)
               [] event[1] = "tenant.disabled" -> OnTenantDisabled(tn, payload[1], t)
               [] event[1] = "tenant.enabled"  -> OnTenantEnabled(tn, payload[1], t)
               [] event[1] = "tenant.deleted"  -> OnTenantDeleted(tn, payload[1], t)
               [] OTHER -> [ tenants |-> tn, status |-> 200 ]

-----------------------------------------------------------------------------
(* Data plane: core.retry_failed_webhooks *)

\* WHERE status = 'failed' AND attempts < max_attempts AND next_retry_at <= NOW()
Selected(q, t) ==
    { i \in DOMAIN q : /\ q[i].status = "failed"
                       /\ q[i].attempts < q[i].max_attempts
                       /\ q[i].next_retry_at # NULL
                       /\ q[i].next_retry_at[1] <= t }

\* The rows of S in any order: the query without ORDER BY created_at
OrderingsAny(q, S) ==
    { c \in [ 1..Cardinality(S) -> S ] :
        \A a, b \in DOMAIN c : a # b => c[a] # c[b] }

\* ORDER BY created_at: every order of the ids of S that created_at allows
Orderings(q, S) ==
    { c \in [ 1..Cardinality(S) -> S ] :
        /\ \A a, b \in DOMAIN c : a # b => c[a] # c[b]
        /\ \A a, b \in DOMAIN c : a < b => q[c[a]].created_at <= q[c[b]].created_at }

\* LIMIT 100
Limit(c) == IF Len(c) <= BATCH_LIMIT THEN c ELSE SubSeq(c, 1, BATCH_LIMIT)

\* The result sets the FOR loop's query may give at time t
Batches(q, t) == { Limit(c) : c \in Orderings(q, Selected(q, t)) }

-----------------------------------------------------------------------------
(* The state machine *)

RecvSecrets == { NULL, Some(DefaultSecret), Some(RealSecret) }
TcIdle == [ pc |-> "idle", tenant |-> 0, subdomain |-> "", crm |-> NULL ]
Creators == { "c1", "c2" }
\* No workspace schema exists
\* Supabase authentication before any request: the core.user table is
\* empty and no login token has been issued
AuthIdle ==
    [ AUTH_SUPABASE_ENABLED |-> TRUE, users |-> {}, loginTokens |-> {},
      answer |-> << >> ]

SchemaIdle == [ names |-> {}, warnings |-> {} ]
\* No stats request has been made
StatsIdle ==
    [ pc |-> "idle", totalTenants |-> NULL, activeTenants |-> NULL,
      totalUsers |-> NULL, began |-> 0, answer |-> NULL ]
Installers == { "i1", "i2" }
\* No lock file, no .env.local, SETUP_KEY set, no initialize request
SetupIdle ==
    [ SETUP_KEY |-> Some("setup-key"), locked |-> FALSE, env |-> NULL,
      successes |-> 0, requests |-> 0,
      req |-> [ i \in Installers |-> [ pc |-> "idle", status |-> 0 ] ] ]
\* The server holds an admin key; no request has reached the controller
GuardIdle ==
    [ SAAS_ADMIN_KEY |-> Some(<< "s", "k" >>), providedKey |-> NULL,
      isSaasAdmin |-> FALSE, error |-> NULL ]
RaceIdle == [ c \in Creators |-> TcIdle ]
DrainerIdle == [ pc |-> "idle", cursor |-> << >>, v_count |-> 0, batch |-> {} ]
\* The signature service before any use, no WEBHOOK_SECRET configured
CodecIdle ==
    [ secret |-> NULL, payload |-> << >>, issued |-> NULL, answer |-> NULL,
      elapsed |-> 0 ]

NoAck == [ event |-> "none", signed |-> FALSE, valid |-> FALSE, status |-> 0,
           changed |-> FALSE ]

Init ==
    /\ now = 0
    /\ workspace = [ id \in WsIds |-> Unused ]
    /\ webhook_config = [ url |-> Some(DefaultWebhookUrl), secret |-> DefaultSecret ]
    /\ webhook_queue = << >>
    /\ http_requests = << >>
    /\ http_response = << >>
    /\ tenants = << >>
    /\ WEBHOOK_SECRET \in RecvSecrets
    /\ tc = TcIdle
    /\ drainer = [ d \in Drainers |-> DrainerIdle ]
    /\ ack = NoAck
    /\ handled = << >>
    /\ ops = [ n |-> 0, lost |-> 0 ]
    /\ deliveries = << >>
    /\ codec = CodecIdle
    /\ deleted = {}
    /\ race = RaceIdle
    /\ guard = GuardIdle
    /\ auth = AuthIdle
    /\ sync_queue = << >>
    /\ stats = StatsIdle
    /\ schema = SchemaIdle
    /\ userWorkspace = {}
    /\ setup = SetupIdle

Tick ==
    /\ now < MaxTime
    /\ now' = now + 1
    /\ UNCHANGED << setup, userWorkspace, schema, stats, sync_queue, auth, guard, codec, deleted, race,
                    workspace, webhook_config, webhook_queue, http_requests,
                    http_response, tenants, WEBHOOK_SECRET, tc, drainer, ack,
                    handled, ops, deliveries >>

\* "update these after deployment": the operator sets the endpoint and secret
ConfigureWebhook ==
    /\ NotConfigured(webhook_config)
    /\ webhook_config' = [ url |-> Some(ConfiguredUrl), secret |-> RealSecret ]
    /\ UNCHANGED << now, setup, userWorkspace, schema, stats, sync_queue, auth, guard, codec, race, deleted, workspace, webhook_queue, http_requests, http_response,
                    tenants, WEBHOOK_SECRET, tc, drainer, ack, handled, ops,
                    deliveries >>

\* What send_webhook left behind becomes the tables' content
Persist(r) ==
    /\ webhook_queue' = r.queue
    /\ http_requests' = r.requests
    /\ http_response' = IF Len(r.requests) > Len(http_requests)
                        THEN Append(http_response, NULL) ELSE http_response
    /\ handled' = IF Len(r.requests) > Len(http_requests)
                  THEN Append(handled, 0) ELSE handled

\* origin: the row a new row re-sends (0: it is an event of its own)
NewDelivery(r, origin) ==
    IF Len(r.queue) > Len(webhook_queue)
    THEN Append(deliveries,
                [ origin |-> IF origin = 0 THEN Len(r.queue) ELSE origin,
                  retries |-> 0, failures |-> 0 ])
    ELSE deliveries

\* A command's transaction commits. The event is lost when the command
\* changed what a trigger reports and no row was queued.
Commit(r) ==
    /\ workspace' = r.workspace
    /\ Persist(r)
    /\ deliveries' = NewDelivery(r, 0)
    /\ ops' = [ n |-> ops.n + 1,
                lost |-> IF /\ Len(r.queue) = Len(webhook_queue)
                            /\ \E id \in WsIds :
                                 \/ r.workspace[id].exists # workspace[id].exists
                                 \/ /\ workspace[id].exists
                                    /\ r.workspace[id].isDisabled
                                           # workspace[id].isDisabled
                         THEN ops.lost + 1 ELSE ops.lost ]

\* POST /saas/tenants
SaasCreateTenant(subdomain, raises) ==
    LET r == createTenant(workspace, webhook_queue, http_requests,
                          webhook_config, now, subdomain, raises)
    IN  /\ ops.n < MaxOps
        /\ FreshIds(workspace) # {}
        /\ r.ok
        /\ Commit(r)
        /\ UNCHANGED << now, setup, userWorkspace, schema, stats, sync_queue, auth, guard, codec, race, deleted, webhook_config, tenants, WEBHOOK_SECRET, tc,
                        drainer, ack >>

\* POST /saas/tenants/:tenantId/disable
SaasDisableTenant(id, reason, raises) ==
    LET r == disableTenant(workspace, webhook_queue, http_requests,
                           webhook_config, now, id, reason, raises)
    IN  /\ ops.n < MaxOps
        /\ r.ok
        /\ Commit(r)
        /\ UNCHANGED << now, setup, userWorkspace, schema, stats, sync_queue, auth, guard, codec, race, deleted, webhook_config, tenants, WEBHOOK_SECRET, tc,
                        drainer, ack >>

\* POST /saas/tenants/:tenantId/enable
SaasEnableTenant(id, raises) ==
    LET r == enableTenant(workspace, webhook_queue, http_requests,
                          webhook_config, now, id, raises)
    IN  /\ ops.n < MaxOps
        /\ r.ok
        /\ Commit(r)
        /\ UNCHANGED << now, setup, userWorkspace, schema, stats, sync_queue, auth, guard, codec, race, deleted, webhook_config, tenants, WEBHOOK_SECRET, tc,
                        drainer, ack >>

\* DELETE /saas/tenants/:tenantId
SaasDeleteTenant(id, raises) ==
    LET r == deleteTenant(workspace, webhook_queue, http_requests,
                          webhook_config, now, id, raises)
    IN  /\ ops.n < MaxOps
        /\ r.ok
        /\ Commit(r)
        /\ deleted' = deleted \cup { id }
        /\ UNCHANGED << now, setup, userWorkspace, schema, stats, sync_queue, auth, guard, codec, race, webhook_config, tenants, WEBHOOK_SECRET, tc,
                        drainer, ack >>

\* tenant-manage, action 'delete': "For now, delete = disable with reason".
\* The request goes to POST /saas/tenants/:tenantId/disable with the reason
\* body.reason || 'Tenant deleted', and the caller is answered
\* { success: true, action: 'delete' } when that call succeeds.
TenantManageDelete(id, reason, raises) ==
    LET r == disableTenant(workspace, webhook_queue, http_requests,
                           webhook_config, now, id,
                           IF reason \in { NULL, UNDEFINED }
                           THEN Some("Tenant deleted") ELSE reason,
                           raises)
    IN  /\ ops.n < MaxOps
        /\ r.ok
        /\ Commit(r)
        /\ deleted' = deleted \cup { id }
        /\ UNCHANGED << now, setup, userWorkspace, schema, stats, sync_queue, auth, guard, codec, race, webhook_config, tenants, WEBHOOK_SECRET, tc,
                        drainer, ack >>

-----------------------------------------------------------------------------
(* Control plane: tenant-create, one request at a time *)

\* crm.queue_sync(p_operation, p_payload, p_tenant_id): the other columns
\* take the table's defaults
queue_sync(sq, p_operation, p_tenant_id) ==
    Append(sq, [ operation |-> p_operation, tenant_id |-> p_tenant_id,
                 status |-> "pending", attempts |-> 0,
                 max_attempts |-> SYNC_MAX_ATTEMPTS, last_error |-> NULL,
                 next_retry_at |-> NULL ])

\* .eq('tenant_id', id).eq('operation', 'create_tenant').eq('status', 'pending')
PendingCreate(row, id) ==
    /\ row.tenant_id = id
    /\ row.operation = "create_tenant"
    /\ row.status = "pending"

\* Lines 174-179: the sync is marked completed
SyncCompleted(sq, id) ==
    [ k \in DOMAIN sq |->
        IF PendingCreate(sq[k], id)
        THEN [ sq[k] EXCEPT !.status = "completed" ] ELSE sq[k] ]

\* Lines 181-191: the sync is marked failed
SyncFailed(sq, id) ==
    [ k \in DOMAIN sq |->
        IF PendingCreate(sq[k], id)
        THEN [ sq[k] EXCEPT !.status = "failed",
                            !.last_error = Some("CRM creation failed"),
                            !.attempts = 1 ]
        ELSE sq[k] ]

\* Lines 73-110: 409 when the subdomain exists, else the row is inserted
\* with status 'pending'.
TcInsert(subdomain) ==
    /\ tc.pc = "idle"
    /\ \A i \in DOMAIN tenants : tenants[i].subdomain # subdomain
    /\ tenants' = Append(tenants, TenantRow(subdomain, now))
    /\ tc' = [ pc |-> "inserted", tenant |-> Len(tenants) + 1,
               subdomain |-> subdomain, crm |-> NULL ]
    /\ sync_queue' = queue_sync(sync_queue, "create_tenant", Len(tenants) + 1)
    /\ UNCHANGED << now, setup, userWorkspace, schema, stats, auth, guard, codec, race, deleted, workspace, webhook_config, webhook_queue,
                    http_requests, http_response, WEBHOOK_SECRET, drainer, ack,
                    handled, ops, deliveries >>

\* Lines 138-153: fetch POST /saas/tenants and read the answer. The CRM runs
\* createTenant; a refusal leaves crmResult.tenant undefined.
TcCallCrm(raises) ==
    LET r == createTenant(workspace, webhook_queue, http_requests,
                          webhook_config, now, tc.subdomain, raises)
    IN  /\ tc.pc = "inserted"
        /\ ops.n < MaxOps
        /\ SubdomainTaken(workspace, tc.subdomain) \/ FreshIds(workspace) # {}
        /\ Commit(r)
        /\ tc' = [ tc EXCEPT !.pc = "called", !.crm = r.id ]
        /\ UNCHANGED << now, setup, userWorkspace, schema, stats, sync_queue, auth, guard, codec, race, deleted, webhook_config, tenants, WEBHOOK_SECRET, drainer,
                        ack >>

\* Lines 136, 193-196: CRM_SERVER_URL is not set, or fetch throws
TcCrmFails ==
    /\ tc.pc = "inserted"
    /\ tc' = TcIdle
    /\ UNCHANGED << now, setup, userWorkspace, schema, stats, sync_queue, auth, guard, codec, race, deleted, workspace, webhook_config, webhook_queue,
                    http_requests, http_response, tenants, WEBHOOK_SECRET,
                    drainer, ack, handled, ops, deliveries >>

\* .update({crm_workspace_id, status: 'active'}).eq('id', tenant.id); the
\* BEFORE UPDATE trigger stamps updated_at; a unique violation is an error
\* the caller does not look at.
ActivateById(tn, id, crm, t) ==
    LET upd == [ tn EXCEPT ![id].crm_workspace_id = crm,
                           ![id].status = "active",
                           ![id].updated_at = t ]
    IN  IF UniqueWorkspaceId(upd) THEN upd ELSE tn

\* Lines 155-192: the answer is applied
TcFinish ==
    /\ tc.pc = "called"
    /\ tenants' = IF tc.crm # NULL
                  THEN ActivateById(tenants, tc.tenant, tc.crm, now)
                  ELSE tenants
    /\ sync_queue' = IF tc.crm # NULL
                     THEN SyncCompleted(sync_queue, tc.tenant)
                     ELSE SyncFailed(sync_queue, tc.tenant)
    /\ tc' = TcIdle
    /\ UNCHANGED << now, setup, userWorkspace, schema, stats, auth, guard, codec, race, deleted, workspace, webhook_config, webhook_queue,
                    http_requests, http_response, WEBHOOK_SECRET, drainer, ack,
                    handled, ops, deliveries >>

-----------------------------------------------------------------------------
(* The network between pg_net and crm-webhook *)

Is2xx(status) == status >= 200 /\ status < 300

\* The signature header is the HMAC-SHA256 of timestamp "." body under the
\* receiver's secret
Genuine(req, secret) ==
    /\ secret # NULL
    /\ req.signature # NULL
    /\ req.signature[1].sig
         = Hmac(secret[1], req.signature[1].timestamp, req.body)

EventOf(req) ==
    IF req.body.event # NULL THEN req.body.event[1]
    ELSE IF req.event_header # NULL THEN req.event_header[1] ELSE "missing"

\* crm-webhook serves one request
Receive(req) ==
    LET r == HandleWebhook(tenants, req, WEBHOOK_SECRET, now)
    IN  /\ tenants' = r.tenants
        /\ ack' = [ event |-> EventOf(req),
                    signed |-> req.signature # NULL,
                    valid |-> Genuine(req, WEBHOOK_SECRET),
                    status |-> r.status,
                    changed |-> r.tenants # tenants ]

\* One more failed delivery of the event that queue row id carries
Failure(d, id) ==
    LET o == d[id].origin
    IN  [ d EXCEPT ![o].failures = d[o].failures + 1 ]

\* pg_net (or the network, once more) hands request i to crm-webhook;
\* net._http_response keeps the first answer.
Deliver(i) ==
    LET status == HandleWebhook(tenants, http_requests[i], WEBHOOK_SECRET,
                                now).status
    IN  /\ i \in DOMAIN http_requests
        /\ handled[i] < MaxDeliveries
        /\ Receive(http_requests[i])
        /\ handled' = [ handled EXCEPT ![i] = handled[i] + 1 ]
        /\ http_response' = IF http_response[i] = NULL
                            THEN [ http_response EXCEPT ![i] = Some(status) ]
                            ELSE http_response
        /\ deliveries' = IF http_response[i] = NULL /\ ~Is2xx(status)
                         THEN Failure(deliveries, http_requests[i].queue_id)
                         ELSE deliveries
        /\ UNCHANGED << now, setup, userWorkspace, schema, stats, sync_queue, auth, guard, codec, race, deleted, workspace, webhook_config, webhook_queue,
                        http_requests, WEBHOOK_SECRET, tc, drainer, ops >>

\* The request times out or the connection fails: no HTTP status (0)
DeliveryFails(i) ==
    /\ i \in DOMAIN http_requests
    /\ http_response[i] = NULL
    /\ http_response' = [ http_response EXCEPT ![i] = Some(0) ]
    /\ deliveries' = Failure(deliveries, http_requests[i].queue_id)
    /\ UNCHANGED << now, setup, userWorkspace, schema, stats, sync_queue, auth, guard, codec, race, deleted, workspace, webhook_config, webhook_queue,
                    http_requests, tenants, WEBHOOK_SECRET, tc, drainer, ack,
                    handled, ops >>

-----------------------------------------------------------------------------
(* Data plane: retry_failed_webhooks, called from cron by any number of
   sessions; each row of the loop is one step *)

Remaining == Len(drainer["d1"].cursor) + Len(drainer["d2"].cursor)

\* The loop's query is run; the session holds its result set
DrainBegin(d) ==
    /\ drainer[d].pc = "idle"
    /\ \E c \in Batches(webhook_queue, now) :
        /\ Len(webhook_queue) + Remaining + Len(c) <= MaxQueue
        /\ \A k \in DOMAIN c : deliveries[c[k]].retries < MaxRetries
        /\ drainer' = [ drainer EXCEPT ![d] =
                          [ pc |-> "loop", cursor |-> c, v_count |-> 0,
                            batch |-> { c[k] : k \in DOMAIN c } ] ]
    /\ UNCHANGED << now, setup, userWorkspace, schema, stats, sync_queue, auth, guard, codec, race, deleted, workspace, webhook_config, webhook_queue,
                    http_requests, http_response, tenants, WEBHOOK_SECRET, tc,
                    ack, handled, ops, deliveries >>

\* The loop when an error of send_webhook is not caught: the call of
\* retry_failed_webhooks ends there
DrainStepAborting(d, raises) ==
    LET i == Head(drainer[d].cursor)
        v_webhook == webhook_queue[i]
        r == send_webhook(webhook_queue, http_requests, webhook_config, now,
                          v_webhook.event_type, v_webhook.payload, FALSE)
        d1 == NewDelivery(r, i)
        thrown == raises /\ ~NotConfigured(webhook_config)
    IN  /\ drainer[d].pc = "loop"
        /\ drainer[d].cursor # << >>
        /\ IF thrown
           THEN /\ UNCHANGED << webhook_queue, http_requests, http_response,
                                handled, deliveries >>
                /\ drainer' = [ drainer EXCEPT ![d].pc = "idle",
                                               ![d].cursor = << >> ]
           ELSE /\ Persist(r)
                /\ deliveries' = [ d1 EXCEPT ![i].retries = d1[i].retries + 1 ]
                /\ drainer' =
                     [ drainer EXCEPT ![d].cursor = Tail(drainer[d].cursor),
                                      ![d].v_count = drainer[d].v_count + 1 ]
        /\ UNCHANGED << now, setup, userWorkspace, schema, stats, sync_queue, auth, guard, codec, race, deleted, workspace,
                        webhook_config, tenants, WEBHOOK_SECRET, tc, ack, ops >>

\* PERFORM core.send_webhook(v_webhook.event_type, v_webhook.payload);
\* v_count := v_count + 1
DrainStep(d, raises) ==
    LET i == Head(drainer[d].cursor)
        v_webhook == webhook_queue[i]
        r == send_webhook(webhook_queue, http_requests, webhook_config, now,
                          v_webhook.event_type, v_webhook.payload, raises)
        d1 == NewDelivery(r, i)
    IN  /\ drainer[d].pc = "loop"
        /\ drainer[d].cursor # << >>
        /\ Persist(r)
        /\ deliveries' =
             [ d1 EXCEPT ![i].retries = d1[i].retries + 1,
                         ![i].failures =
                             IF raises /\ ~NotConfigured(webhook_config)
                             THEN d1[i].failures + 1 ELSE d1[i].failures ]
        /\ drainer' = [ drainer EXCEPT ![d].cursor = Tail(drainer[d].cursor),
                                       ![d].v_count = drainer[d].v_count + 1 ]
        /\ UNCHANGED << now, setup, userWorkspace, schema, stats, sync_queue, auth, guard, codec, race, deleted, workspace, webhook_config, tenants,
                        WEBHOOK_SECRET, tc, ack, ops >>

\* RETURN v_count
DrainEnd(d) ==
    /\ drainer[d].pc = "loop"
    /\ drainer[d].cursor = << >>
    /\ drainer' = [ drainer EXCEPT ![d].pc = "idle" ]
    /\ UNCHANGED << now, setup, userWorkspace, schema, stats, sync_queue, auth, guard, codec, race, deleted, workspace, webhook_config, webhook_queue,
                    http_requests, http_response, tenants, WEBHOOK_SECRET, tc,
                    ack, handled, ops, deliveries >>

-----------------------------------------------------------------------------
(* The system: commands, tenant-create and deliveries *)

Commands ==
    \/ \E s \in Subdomains, raises \in BOOLEAN : SaasCreateTenant(s, raises)
    \/ \E id \in WsIds, reason \in {Some(x) : x \in Reasons} \cup {UNDEFINED},
          raises \in BOOLEAN : SaasDisableTenant(id, reason, raises)
    \/ \E id \in WsIds, raises \in BOOLEAN : SaasEnableTenant(id, raises)
    \/ \E id \in WsIds, raises \in BOOLEAN : SaasDeleteTenant(id, raises)

TenantCreate ==
    \/ \E s \in Subdomains : TcInsert(s)
    \/ \E raises \in BOOLEAN : TcCallCrm(raises)
    \/ TcCrmFails
    \/ TcFinish

Network ==
    \/ \E i \in DOMAIN http_requests : Deliver(i)
    \/ \E i \in DOMAIN http_requests : DeliveryFails(i)

\* retry_failed_webhooks is left out: it selects no row of a queue that only
\* send_webhook has written (SpecDrain runs it).
Next ==
    \/ Tick
    \/ ConfigureWebhook
    \/ Commands
    \/ TenantCreate
    \/ Network

Spec == Init /\ [][Next]_vars

-----------------------------------------------------------------------------
(* Properties of the whole system (Spec) *)

\* The status the control plane should show for a workspace
DataPlaneStatus(id) ==
    IF ~workspace[id].exists THEN "deleted"
    ELSE IF workspace[id].isDisabled THEN "disabled" ELSE "active"

\* Every event the data plane produced is queued as sent, reached the
\* receiver and was answered 2xx, and tenant-create is not in progress
Settled ==
    /\ tc.pc = "idle"
    /\ ops.lost = 0
    /\ \A i \in DOMAIN webhook_queue : webhook_queue[i].status = "sent"
    /\ \A k \in DOMAIN http_requests :
          /\ handled[k] >= 1
          /\ http_response[k] # NULL
          /\ Is2xx(http_response[k][1])

\* C2: convergence. Once every event of the data plane has been delivered
\* (in any order, any number of times) and nothing is in progress, the
\* status of each tenant agrees with the state of the workspace it is linked
\* to: active for an enabled one, disabled for a disabled one, deleted for a
\* removed one.
C2_Convergence ==
    Settled =>
        \A i \in DOMAIN tenants : \A id \in WsIds :
            tenants[i].crm_workspace_id = Some(id)
                => tenants[i].status = DataPlaneStatus(id)

\* C3: deleted is terminal. No step takes a tenant whose status is deleted
\* to any other status.
C3_DeletedIsTerminal ==
    [][ \A i \in DOMAIN tenants :
          tenants[i].status = "deleted" => tenants'[i].status = "deleted" ]_vars

\* C7: sent only after a 2xx answer. Every queue row whose status is sent
\* has a request that the endpoint answered with a 2xx status.
C7_SentOnlyAfter2xx ==
    \A i \in DOMAIN webhook_queue :
        webhook_queue[i].status = "sent" =>
            \E k \in DOMAIN http_requests :
                /\ http_requests[k].queue_id = i
                /\ http_response[k] # NULL
                /\ Is2xx(http_response[k][1])

\* The event a step's change of workspace id calls for ("none": no change of
\* existence or enablement)
EventDue(id) ==
    IF ~workspace[id].exists
    THEN IF workspace'[id].exists THEN "tenant.created" ELSE "none"
    ELSE IF ~workspace'[id].exists THEN "tenant.deleted"
    ELSE IF ~workspace[id].isDisabled /\ workspace'[id].isDisabled
         THEN "tenant.disabled"
    ELSE IF workspace[id].isDisabled /\ ~workspace'[id].isDisabled
         THEN "tenant.enabled"
    ELSE "none"

\* C8: one event per state change. A step that creates, disables, enables or
\* deletes a workspace adds exactly one row to the queue, and the row has the
\* event type of that change.
C8_OneEventPerChange ==
    [][ \A id \in WsIds :
          EventDue(id) # "none" =>
              /\ Len(webhook_queue') = Len(webhook_queue) + 1
              /\ webhook_queue'[Len(webhook_queue')].event_type = EventDue(id)
      ]_vars

-----------------------------------------------------------------------------
(* The receiver alone: crm-webhook is a public endpoint, any request may
   reach it *)

\* The request send_webhook posts for an event at time t
SenderRequest(event_type, payload, t) ==
    HttpPost([ url |-> Some(ConfiguredUrl), secret |-> RealSecret ],
             event_type, payload, t, Hmac(RealSecret, t, payload), 0)

\* Events and payloads for subdomain s at time t: the four events for each
\* workspace id (tenant.disabled with and without its disabled_at and
\* reason) and an event the receiver does not know
EventPayloads(s, t) ==
    LET row == [ subdomain |-> s ]
    IN  { << e, Payload(id, row, UNDEFINED, UNDEFINED) >> :
            e \in { "tenant.created", "tenant.enabled", "tenant.deleted" },
            id \in WsIds }
        \cup
        { << "tenant.disabled", Payload(id, row, x[1], x[2]) >> :
            id \in WsIds,
            x \in { << Some(t), Some("non-payment") >>, << NULL, NULL >> } }
        \cup
        { << "tenant.renamed", Payload(1, row, UNDEFINED, UNDEFINED) >> }

\* The signature headers tried on a request at time t: none, the sender's,
\* the HMAC of the body, 64 characters of anything, a short one, and a
\* genuine one that is too old
Signatures(req, t) ==
    LET stale == t - TOLERANCE_SECONDS - 1
    IN  { NULL,
          req.signature,
          Some([ timestamp |-> t, sig |-> Hmac(RealSecret, t, req.body) ]),
          Some([ timestamp |-> t,
                 sig |-> [ forged |-> TRUE, length |-> SHA256_HEX_LENGTH ] ]),
          Some([ timestamp |-> t,
                 sig |-> [ forged |-> TRUE, length |-> SHA256_HEX_LENGTH - 1 ] ]),
          Some([ timestamp |-> stale,
                 sig |-> Hmac(RealSecret, stale, req.body) ]) }

\* The requests made at time t; one of them names no event at all
Requests(t) ==
    LET sent == { SenderRequest(x[1], x[2], t) :
                    x \in UNION { EventPayloads(s, t) : s \in Subdomains } }
        bare == { [ r EXCEPT !.body.event = NULL, !.event_header = NULL ] :
                    r \in { q \in sent : q.body.event = Some("tenant.renamed") } }
    IN  UNION { { [ r EXCEPT !.signature = sig ] : sig \in Signatures(r, t) } :
                  r \in sent \cup bare }

\* What may arrive at time t: a request made now or earlier
Arrivals(t) == UNION { Requests(t0) : t0 \in 0..t }

\* POST /functions/v1/crm-webhook
Post(req) ==
    /\ Receive(req)
    /\ UNCHANGED << now, setup, userWorkspace, schema, stats, sync_queue, auth, guard, codec, race, deleted, workspace, webhook_config, webhook_queue,
                    http_requests, http_response, WEBHOOK_SECRET, tc, drainer,
                    handled, ops, deliveries >>

NextRecv ==
    \/ Tick
    \/ \E s \in Subdomains : TcInsert(s)
    \/ \E req \in Arrivals(now) : Post(req)

SpecRecv == Init /\ [][NextRecv]_vars

-----------------------------------------------------------------------------
(* Properties of the receiver (SpecRecv) *)

\* C1: events are applied only after genuine verification. With a secret
\* of its own configured, the receiver answers a request whose signature
\* header is missing, or is not the HMAC of timestamp "." body under that
\* secret, with a non-2xx status and changes no tenant row.
C1_VerifiedBeforeApplied ==
    (WEBHOOK_SECRET = Some(RealSecret) /\ ack.status # 0 /\ ~ack.valid)
        => (~Is2xx(ack.status) /\ ~ack.changed)

\* What the lifecycle of the tenants is made of: everything but updated_at
Lifecycle(tn) ==
    [ i \in DOMAIN tn |-> << tn[i].status, tn[i].crm_workspace_id,
                             tn[i].disabled_at, tn[i].disabled_reason >> ]

\* A tenant.disabled event says when the tenant was disabled
CarriesDisabledAt(req) ==
    req.body.event = Some("tenant.disabled")
        => req.body.payload[1].disabled_at \notin { NULL, UNDEFINED }

SignedCreated(subdomain, t) ==
    { SenderRequest("tenant.created",
                    Payload(id, [ subdomain |-> subdomain ], UNDEFINED,
                            UNDEFINED), t) : id \in WsIds }

\* C10: a tenant starts pending; the signed tenant.created webhook for it
\* makes it active and records the workspace id; the same webhook once more
\* leaves it active with that id, and is answered without an error.
C10_CreatedActivates ==
    \A i \in DOMAIN tenants :
        /\ ack = NoAck => /\ tenants[i].status = "pending"
                          /\ tenants[i].crm_workspace_id = NULL
        /\ tenants[i].status = "pending" =>
             \A req \in UNION { SignedCreated(tenants[i].subdomain, t0) :
                                    t0 \in 0..now } :
             \A t2 \in now..MaxTime :
                LET once  == HandleWebhook(tenants, req, WEBHOOK_SECRET, now)
                    twice == HandleWebhook(once.tenants, req, WEBHOOK_SECRET, t2)
                    id    == req.body.payload[1].crm_workspace_id
                IN  /\ once.status = 200
                    /\ once.tenants[i].status = "active"
                    /\ once.tenants[i].crm_workspace_id = id
                    /\ twice.status = 200
                    /\ twice.tenants[i].status = "active"
                    /\ twice.tenants[i].crm_workspace_id = id

\* A signed tenant.created webhook has reached a tenant that it had already
\* activated: answered 200, nothing changed
C10_Witness ==
    /\ ack.event = "tenant.created"
    /\ ack.signed
    /\ ack.status = 200
    /\ ~ack.changed
    /\ \E i \in DOMAIN tenants :
          /\ tenants[i].status = "active"
          /\ tenants[i].crm_workspace_id # NULL

\* The status an event asks for
TargetStatus(event) ==
    CASE event = "tenant.created"  -> "active"
      [] event = "tenant.disabled" -> "disabled"
      [] event = "tenant.enabled"  -> "active"
      [] event = "tenant.deleted"  -> "deleted"

\* The statuses an event's transition may start from
LegalFrom(event) ==
    CASE event = "tenant.created"  -> { "pending" }
      [] event = "tenant.disabled" -> { "active" }
      [] event = "tenant.enabled"  -> { "disabled" }
      [] event = "tenant.deleted"  -> { "pending", "active", "disabled" }

\* C11: a genuinely signed event whose transition is not legal from the
\* status of the tenant it names, and whose target is another status, leaves
\* that status as it was.
C11_IllegalTransitionRejected ==
    \A req \in Arrivals(now) : \A i \in DOMAIN tenants :
        LET e == EventOf(req)
            r == HandleWebhook(tenants, req, WEBHOOK_SECRET, now)
        IN  ( /\ WEBHOOK_SECRET = Some(RealSecret)
              /\ Genuine(req, WEBHOOK_SECRET)
              /\ e \in { "tenant.created", "tenant.disabled",
                         "tenant.enabled", "tenant.deleted" }
              /\ req.body.payload # NULL
              /\ req.body.payload[1].subdomain = Some(tenants[i].subdomain)
              /\ tenants[i].status \notin LegalFrom(e)
              /\ tenants[i].status # TargetStatus(e) )
                => r.tenants[i].status = tenants[i].status

\* C14: when crm-webhook has let a signed request past verifySignature
\* (has answered it otherwise than with 401), the signature was the
\* HMAC-SHA256 of timestamp "." body under the secret; for any other
\* signature, however close to it, verifySignature answers false.
C14_OnlyTheExpectedSignature ==
    ( /\ WEBHOOK_SECRET = Some(RealSecret)
      /\ ack.signed
      /\ ack.status \notin { 0, 401 } )
        => ack.valid

-----------------------------------------------------------------------------
(* The queue and its drain. send_webhook's handler finds its row rolled
   back, so no command leaves a failed row behind; the failed rows
   retry_failed_webhooks is written for are given, as the table's columns
   allow them. *)

MaxGiven == 2         \* queue rows present at the start

GivenPayload ==
    Payload(1, [ subdomain |-> "acme" ], Some(0), Some("non-payment"))

GivenRow(status, attempts, next_retry_at) ==
    [ QueueRow(ConfiguredUrl, "tenant.disabled", GivenPayload, status, 0)
        EXCEPT !.attempts = attempts,
               !.next_retry_at = Some(next_retry_at),
               !.last_error = IF status = "failed" THEN Some("SQLERRM")
                                                   ELSE NULL ]

\* A row that was never attempted, and rows that failed all but one or all
\* of their attempts, to be retried now or a second later
GivenRows ==
    { GivenRow("pending", 0, 0) }
    \cup { GivenRow("failed", a, n) :
             a \in { DEFAULT_MAX_ATTEMPTS - 1, DEFAULT_MAX_ATTEMPTS },
             n \in { 0, 1 } }

GivenQueues == UNION { [ 1..n -> GivenRows ] : n \in 1..MaxGiven }

InitDrain ==
    /\ now = 0
    /\ workspace = [ id \in WsIds |-> Unused ]
    /\ webhook_config \in
         { [ url |-> Some(DefaultWebhookUrl), secret |-> DefaultSecret ],
           [ url |-> Some(ConfiguredUrl), secret |-> RealSecret ] }
    /\ webhook_queue \in GivenQueues
    /\ http_requests = << >>
    /\ http_response = << >>
    /\ tenants = << >>
    /\ WEBHOOK_SECRET = Some(RealSecret)
    /\ tc = TcIdle
    /\ drainer = [ d \in Drainers |-> DrainerIdle ]
    /\ ack = NoAck
    /\ handled = << >>
    /\ ops = [ n |-> 0, lost |-> 0 ]
    /\ deliveries = [ i \in DOMAIN webhook_queue |->
                        [ origin |-> i, retries |-> 0,
                          failures |-> webhook_queue[i].attempts ] ]
    /\ codec = CodecIdle
    /\ deleted = {}
    /\ race = RaceIdle
    /\ guard = GuardIdle
    /\ auth = AuthIdle
    /\ sync_queue = << >>
    /\ stats = StatsIdle
    /\ schema = SchemaIdle
    /\ userWorkspace = {}
    /\ setup = SetupIdle

Drain ==
    \/ \E d \in Drainers : DrainBegin(d)
    \/ \E d \in Drainers, raises \in BOOLEAN : DrainStep(d, raises)
    \/ \E d \in Drainers : DrainEnd(d)

NextDrain ==
    \/ Tick
    \/ ConfigureWebhook
    \/ Drain
    \/ Network

SpecDrain == InitDrain /\ [][NextDrain]_vars

\* cron keeps calling retry_failed_webhooks and each call runs to its end;
\* the operator configures the endpoint
SpecDrainFair ==
    /\ SpecDrain
    /\ WF_vars(DrainBegin("d1"))
    /\ WF_vars(\E raises \in BOOLEAN : DrainStep("d1", raises))
    /\ WF_vars(DrainEnd("d1"))
    /\ WF_vars(ConfigureWebhook)

Sent(i) ==
    \E j \in DOMAIN webhook_queue :
        deliveries[j].origin = i /\ webhook_queue[j].status = "sent"

\* C6: at-least-once delivery. If drain keeps being called and the endpoint
\* is configured from some time on, every event queued as pending is
\* eventually marked sent.
C6_PendingEventuallySent ==
    ( []<>(drainer["d1"].pc = "loop") /\ <>[]~NotConfigured(webhook_config) )
        => \A i \in 1..MaxGiven :
              []( ( /\ i \in DOMAIN webhook_queue
                    /\ webhook_queue[i].status = "pending" )
                  => <>Sent(i) )


-----------------------------------------------------------------------------
(* The CRM's WebhookSignatureService (tenant-admin.service.ts). A string is
   the sequence of its characters, so that the template literals, split and
   parseInt are modelled by what they do to the characters. *)

Digits == << "0", "1", "2", "3", "4", "5", "6", "7", "8", "9" >>
HexDigits == Digits \o << "a", "b", "c", "d", "e", "f" >>

\* The characters that occur, in the order of their character codes
Alphabet ==
    << ",", "-", "." >> \o Digits \o << "=" >> \o << "a", "b", "c", "d", "e", "f" >>
       \o << "k", "s", "t", "v", "x", "{", "}" >>

CharCode(c) == CHOOSE i \in DOMAIN Alphabet : Alphabet[i] = c

IsDigit(c) == \E i \in DOMAIN Digits : Digits[i] = c
DigitValue(c) == (CHOOSE i \in DOMAIN Digits : Digits[i] = c) - 1

\* `${n}` for an integer n
RECURSIVE NumberToString(_)
NumberToString(n) ==
    IF n < 0 THEN << "-" >> \o NumberToString(0 - n)
    ELSE IF n < 10 THEN << Digits[n + 1] >>
    ELSE NumberToString(n \div 10) \o << Digits[(n % 10) + 1] >>

RECURSIVE LeadingDigits(_)
LeadingDigits(s) ==
    IF s = << >> \/ ~IsDigit(Head(s)) THEN << >>
    ELSE << Head(s) >> \o LeadingDigits(Tail(s))

RECURSIVE DecimalValue(_)
DecimalValue(ds) ==
    IF ds = << >> THEN 0
    ELSE DecimalValue(SubSeq(ds, 1, Len(ds) - 1)) * 10 + DigitValue(ds[Len(ds)])

\* parseInt(s, 10): an optional sign and the digits that follow it; what
\* comes after the digits is ignored; NaN (here NULL) without a digit
parseInt(s) ==
    LET neg  == s # << >> /\ Head(s) = "-"
        body == IF neg THEN Tail(s) ELSE s
        ds   == LeadingDigits(body)
    IN  IF ds = << >> THEN NULL
        ELSE Some(IF neg THEN 0 - DecimalValue(ds) ELSE DecimalValue(ds))

\* s.split(sep): the pieces between the separators; one piece, s itself,
\* when there is none
RECURSIVE Split(_, _)
Split(s, sep) ==
    IF \A i \in DOMAIN s : s[i] # sep THEN << s >>
    ELSE LET k == CHOOSE i \in DOMAIN s :
                      s[i] = sep /\ \A j \in 1..(i - 1) : s[j] # sep
         IN  << SubSeq(s, 1, k - 1) >> \o Split(SubSeq(s, k + 1, Len(s)), sep)

RECURSIVE WeightedSum(_)
WeightedSum(s) ==
    IF s = << >> THEN 0
    ELSE WeightedSum(SubSeq(s, 1, Len(s) - 1)) + Len(s) * CharCode(s[Len(s)])

\* crypto.createHmac('sha256', key).update(text).digest('hex'): 64 lowercase
\* hex digits fixed by key and text. A checksum stands for SHA-256; nothing
\* below depends on two texts having different digests.
createHmac(key, text) ==
    LET k == WeightedSum(key)
        x == WeightedSum(text)
    IN  [ i \in 1..SHA256_HEX_LENGTH |-> HexDigits[((i * k + x + i) % 16) + 1] ]


TIMESTAMP_TOLERANCE_SECONDS == 300

\* What verifySignature answers: true, or the message of the Error thrown
Valid == "true"
NoSecretConfigured ==
    "Webhook secret not configured. Set WEBHOOK_SECRET environment variable."
MalformedSignature ==
    "Invalid signature format. Expected: t=timestamp,v1=signature"
StaleSignature == "Webhook timestamp too old or too far in the future"
InvalidSignature == "Invalid webhook signature"
\* crypto.timingSafeEqual throws on buffers of different lengths
RangeError == "Input buffers must have the same byte length"
NoSecretProvided == "No secret provided"

\* !s for a string that may be undefined (NULL): undefined and '' are falsy
Falsy(s) == s = NULL \/ s = Some(<< >>)

\* Lines 485-490: const [key, value] = element.split('='); kept if both are
\* non-empty. The pairs kept, in the order of the elements.
RECURSIVE SignatureParts(_)
SignatureParts(elements) ==
    IF elements = << >> THEN << >>
    ELSE LET pieces == Split(Head(elements), "=")
             rest   == SignatureParts(Tail(elements))
         IN  IF Len(pieces) >= 2 /\ pieces[1] # << >> /\ pieces[2] # << >>
             THEN << << pieces[1], pieces[2] >> >> \o rest
             ELSE rest

\* signatureParts[key]: the value assigned last, undefined (NULL) if none
Lookup(parts, key) ==
    LET at == { i \in DOMAIN parts : parts[i][1] = key }
    IN  IF at = {} THEN NULL
        ELSE Some(parts[CHOOSE i \in at : \A j \in at : j <= i][2])

\* crypto.timingSafeEqual(Buffer.from(a), Buffer.from(b)); every character
\* of Alphabet is one byte
timingSafeEqual(a, b) ==
    IF Len(a) # Len(b) THEN RangeError
    ELSE IF a = b THEN Valid ELSE InvalidSignature

\* verifySignature without the replay check
verifySignatureAnyAge(secret, payload, signatureHeader, t) ==
    LET parts     == SignatureParts(Split(signatureHeader, ","))
        timestamp == Lookup(parts, << "t" >>)
        signature == Lookup(parts, << "v", "1" >>)
    IN  IF Falsy(secret) THEN NoSecretConfigured
        ELSE IF Falsy(timestamp) \/ Falsy(signature) THEN MalformedSignature
        ELSE timingSafeEqual(signature[1],
                 createHmac(secret[1], timestamp[1] \o << "." >> \o payload))

\* verifySignature that looks at the timestamp before the format
verifySignatureAgeFirst(secret, payload, signatureHeader, t) ==
    LET parts     == SignatureParts(Split(signatureHeader, ","))
        timestamp == Lookup(parts, << "t" >>)
        signature == Lookup(parts, << "v", "1" >>)
        seconds   == IF timestamp = NULL THEN NULL ELSE parseInt(timestamp[1])
    IN  IF Falsy(secret) THEN NoSecretConfigured
        ELSE IF seconds # NULL
                /\ Abs(t - seconds[1]) > TIMESTAMP_TOLERANCE_SECONDS
        THEN StaleSignature
        ELSE IF Falsy(timestamp) \/ Falsy(signature) THEN MalformedSignature
        ELSE timingSafeEqual(signature[1],
                 createHmac(secret[1], timestamp[1] \o << "." >> \o payload))

\* WebhookSignatureService.verifySignature(payload, signatureHeader), with
\* the configured secret and the clock as parameters. A timestamp that
\* parseInt makes NaN of passes the replay check (a comparison with NaN is
\* false).
WebhookSignatureService_verifySignature(secret, payload, signatureHeader, t) ==
    LET parts     == SignatureParts(Split(signatureHeader, ","))
        timestamp == Lookup(parts, << "t" >>)
        signature == Lookup(parts, << "v", "1" >>)
    IN  IF Falsy(secret) THEN NoSecretConfigured
        ELSE IF Falsy(timestamp) \/ Falsy(signature) THEN MalformedSignature
        ELSE LET timestampSeconds  == parseInt(timestamp[1])
                 signedPayload     == timestamp[1] \o << "." >> \o payload
                 expectedSignature == createHmac(secret[1], signedPayload)
             IN  IF timestampSeconds # NULL
                    /\ Abs(t - timestampSeconds[1]) > TIMESTAMP_TOLERANCE_SECONDS
                 THEN StaleSignature
                 ELSE timingSafeEqual(signature[1], expectedSignature)

\* generateSignature that writes the header as the data plane's send_webhook
\* does, timestamp "." signature
generateSignatureDotted(configured, payload, secret, t) ==
    LET webhookSecret == IF Falsy(secret) THEN configured ELSE secret
        timestamp     == NumberToString(t)
    IN  IF Falsy(webhookSecret)
        THEN [ error |-> Some(NoSecretProvided), header |-> << >> ]
        ELSE [ error |-> NULL,
               header |-> timestamp \o << "." >>
                   \o createHmac(webhookSecret[1],
                                 timestamp \o << "." >> \o payload) ]

\* WebhookSignatureService.generateSignature(payload, secret?), with the
\* configured secret and the clock as parameters
generateSignature(configured, payload, secret, t) ==
    LET webhookSecret == IF Falsy(secret) THEN configured ELSE secret
        timestamp     == NumberToString(t)
        signedPayload == timestamp \o << "." >> \o payload
    IN  IF Falsy(webhookSecret)
        THEN [ error |-> Some(NoSecretProvided), header |-> << >> ]
        ELSE [ error |-> NULL,
               header |-> << "t", "=" >> \o timestamp \o << ",", "v", "1", "=" >>
                              \o createHmac(webhookSecret[1], signedPayload) ]


-----------------------------------------------------------------------------
(* The signature service alone: a secret is configured and a payload
   chosen, a header is generated for it, time passes, and a header is
   presented for verification. *)

MaxElapses == 2

Secrets == { << "k" >>, << "s", "k" >> }
CodecPayloads == { << "{", "}" >>, << "x" >> }

\* How far the clock is moved in one step
Elapses == { 1, TIMESTAMP_TOLERANCE_SECONDS }

\* How far from the clock the timestamp of a presented header is
Offsets ==
    { 0 - (TIMESTAMP_TOLERANCE_SECONDS + 1), 0 - TIMESTAMP_TOLERANCE_SECONDS, 0,
      TIMESTAMP_TOLERANCE_SECONDS, TIMESTAMP_TOLERANCE_SECONDS + 1 }

\* The header's two fields as generateSignature writes them
FieldT(timestamp) == << "t", "=" >> \o timestamp
FieldV1(signature) == << "v", "1", "=" >> \o signature

\* generateSignature's header for a timestamp and a signature
Header(timestamp, signature) ==
    FieldT(timestamp) \o << "," >> \o FieldV1(signature)

\* Headers in which t or v1 is missing or empty
MissingOrEmpty(timestamp, signature) ==
    { << >>,
      FieldT(timestamp),
      FieldV1(signature),
      Header(<< >>, signature),
      Header(timestamp, << >>) }

\* The signature of payload under secret k at the time written as timestamp
Signed(k, timestamp, payload) ==
    createHmac(k, timestamp \o << "." >> \o payload)

\* The headers presented at time t for a payload: for a timestamp at each
\* offset, the header signed with each secret; for a fresh and a stale
\* timestamp, headers with a field missing or empty, with t lacking its '=',
\* with the fields in the other order, and in the data plane's dotted form;
\* and a fresh header whose signature has one character changed or is cut
\* short
Headers(payload, t) ==
    LET Ts(o)   == NumberToString(t + o)
        signed  == { Header(Ts(o), Signed(k, Ts(o), payload)) :
                       o \in Offsets, k \in Secrets }
        Broken(ts, sig) ==
            MissingOrEmpty(ts, sig)
                \cup { << "t" >> \o ts \o << "," >> \o FieldV1(sig),
                       FieldV1(sig) \o << "," >> \o FieldT(ts),
                       ts \o << "." >> \o sig }
        broken  == UNION { Broken(Ts(o), Signed(<< "k" >>, Ts(o), payload)) :
                             o \in { 0, 0 - (TIMESTAMP_TOLERANCE_SECONDS + 1) } }
        fresh   == Signed(<< "k" >>, Ts(0), payload)
        changed == [ fresh EXCEPT ![1] = IF fresh[1] = "0" THEN "1" ELSE "0" ]
        forged  == { Header(Ts(0), changed),
                     Header(Ts(0), SubSeq(fresh, 1, Len(fresh) - 1)) }
    IN  signed \cup broken \cup forged

InitCodec ==
    /\ now = 0
    /\ workspace = [ id \in WsIds |-> Unused ]
    /\ webhook_config = [ url |-> Some(DefaultWebhookUrl), secret |-> DefaultSecret ]
    /\ webhook_queue = << >>
    /\ http_requests = << >>
    /\ http_response = << >>
    /\ tenants = << >>
    /\ WEBHOOK_SECRET = NULL
    /\ tc = TcIdle
    /\ drainer = [ d \in Drainers |-> DrainerIdle ]
    /\ ack = NoAck
    /\ handled = << >>
    /\ ops = [ n |-> 0, lost |-> 0 ]
    /\ deliveries = << >>
    /\ codec \in { [ CodecIdle EXCEPT !.secret = k, !.payload = p ] :
                     k \in { NULL } \cup { Some(x) : x \in Secrets },
                     p \in CodecPayloads }
    /\ deleted = {}
    /\ race = RaceIdle
    /\ guard = GuardIdle
    /\ auth = AuthIdle
    /\ sync_queue = << >>
    /\ stats = StatsIdle
    /\ schema = SchemaIdle
    /\ userWorkspace = {}
    /\ setup = SetupIdle

CodecUnchanged ==
    UNCHANGED << setup, userWorkspace, schema, stats, sync_queue, auth, guard, deleted, race, workspace, webhook_config, webhook_queue,
                 http_requests,
                 http_response, tenants, WEBHOOK_SECRET, tc, drainer, ack,
                 handled, ops, deliveries >>

\* Time passes before the header is presented
Elapse(d) ==
    /\ codec.answer = NULL
    /\ codec.elapsed < MaxElapses
    /\ now' = now + d
    /\ codec' = [ codec EXCEPT !.elapsed = @ + 1 ]
    /\ CodecUnchanged

\* generateSignature(payload, secret) is called
Generate(secret) ==
    LET r == generateSignature(codec.secret, codec.payload, secret, now)
    IN  /\ codec.issued = NULL
        /\ codec.answer = NULL
        /\ codec' = [ codec EXCEPT !.issued =
                        Some([ secret |-> IF Falsy(secret) THEN codec.secret
                                                           ELSE secret,
                               at |-> now, error |-> r.error,
                               header |-> r.header ]) ]
        /\ UNCHANGED now
        /\ CodecUnchanged

\* verifySignature(payload, signatureHeader) is called
Verify(signatureHeader) ==
    /\ codec.answer = NULL
    /\ codec' = [ codec EXCEPT !.answer =
                    Some([ header |-> signatureHeader, at |-> now,
                           result |-> WebhookSignatureService_verifySignature(
                                          codec.secret, codec.payload,
                                          signatureHeader, now) ]) ]
    /\ UNCHANGED now
    /\ CodecUnchanged

\* The header generateSignature issued, if it issued one
Issued == IF codec.issued # NULL /\ codec.issued[1].error = NULL
          THEN { codec.issued[1].header } ELSE {}

NextCodec ==
    \/ \E d \in Elapses : Elapse(d)
    \/ \E secret \in { NULL, Some(<< >>) } \cup { Some(x) : x \in Secrets } :
          Generate(secret)
    \/ \E h \in Headers(codec.payload, now) \cup Issued : Verify(h)

SpecCodec == InitCodec /\ [][NextCodec]_vars


\* C12: the header generateSignature makes for a payload is accepted by
\* verifySignature for the same payload when the secret signed with is the
\* configured one and the clock still shows the time of signing.
C12_GeneratedIsAccepted ==
    ( /\ codec.issued # NULL
      /\ codec.answer # NULL
      /\ codec.issued[1].error = NULL
      /\ codec.issued[1].secret = codec.secret
      /\ codec.answer[1].header = codec.issued[1].header
      /\ codec.answer[1].at = codec.issued[1].at )
        => codec.answer[1].result = Valid

\* A generated header has been verified in the second it was signed, under
\* the secret it was signed with, and was accepted
C12_Witness ==
    /\ codec.issued # NULL
    /\ codec.answer # NULL
    /\ codec.issued[1].error = NULL
    /\ codec.issued[1].secret = codec.secret
    /\ codec.answer[1].header = codec.issued[1].header
    /\ codec.answer[1].at = codec.issued[1].at
    /\ codec.answer[1].result = Valid

\* C13: with a secret configured, a header t=..,v1=.. whose timestamp is
\* more than 300 seconds before or after the clock is refused as stale,
\* whichever secret signed it, the configured one included; crm-webhook's
\* verifySignature answers false for a timestamp that far off as well.
C13_StaleIsRejected ==
    \A o \in Offsets : \A k \in Secrets :
        LET ts == NumberToString(now + o)
        IN  Abs(o) > TIMESTAMP_TOLERANCE_SECONDS =>
              /\ ( /\ codec.answer # NULL
                   /\ codec.secret # NULL
                   /\ codec.answer[1].at = now
                   /\ codec.answer[1].header
                        = Header(ts, Signed(k, ts, codec.payload)) )
                    => codec.answer[1].result = StaleSignature
              /\ ~verifySignature(codec.payload,
                                  [ timestamp |-> now + o,
                                    sig |-> Hmac(k, now + o, codec.payload) ],
                                  k, now)

\* A header signed with the configured secret for a second out of the
\* tolerance in the future has been presented and refused as stale
C13_Witness ==
    /\ codec.answer # NULL
    /\ codec.secret # NULL
    /\ codec.answer[1].result = StaleSignature
    /\ LET ts == NumberToString(codec.answer[1].at
                                  + TIMESTAMP_TOLERANCE_SECONDS + 1)
       IN  codec.answer[1].header
             = Header(ts, Signed(codec.secret[1], ts, codec.payload))

\* C15: with a secret configured, a header in which t or v1 is missing or
\* empty is refused as malformed, also when the timestamp it carries is out
\* of the tolerance.
C15_MalformedIsRejected ==
    \A o \in Offsets : \A k \in Secrets :
        LET ts == NumberToString(now + o)
        IN  ( /\ codec.answer # NULL
              /\ codec.secret # NULL
              /\ codec.answer[1].at = now
              /\ codec.answer[1].header
                   \in MissingOrEmpty(ts, Signed(k, ts, codec.payload)) )
                => codec.answer[1].result = MalformedSignature

\* A header that has a stale t and no v1 has been presented and refused as
\* malformed
C15_Witness ==
    /\ codec.answer # NULL
    /\ codec.secret # NULL
    /\ codec.answer[1].result = MalformedSignature
    /\ codec.answer[1].header
         = FieldT(NumberToString(codec.answer[1].at
                                   - (TIMESTAMP_TOLERANCE_SECONDS + 1)))


-----------------------------------------------------------------------------
(* The admin endpoints alone, on a data plane that already has a workspace:
   POST /saas/tenants ran while the webhook endpoint was not configured (so
   that no event was queued), and POST /saas/tenants/:id/disable may have
   run after it. *)

GivenWorkspaces ==
    LET none    == [ id \in WsIds |-> Unused ]
        unset   == [ url |-> Some(DefaultWebhookUrl), secret |-> DefaultSecret ]
        created == { createTenant(none, << >>, << >>, unset, 0, s, FALSE) :
                       s \in Subdomains }
        disabled == { disableTenant(c.workspace, c.queue, c.requests, unset, 0,
                                    c.id[1], reason, FALSE) :
                        c \in created,
                        reason \in { Some(x) : x \in Reasons } \cup { UNDEFINED } }
    IN  { none } \cup { r.workspace : r \in created \cup disabled }

InitSaas ==
    /\ now = 0
    /\ workspace \in GivenWorkspaces
    /\ webhook_config \in
         { [ url |-> Some(DefaultWebhookUrl), secret |-> DefaultSecret ],
           [ url |-> Some(ConfiguredUrl), secret |-> RealSecret ] }
    /\ webhook_queue = << >>
    /\ http_requests = << >>
    /\ http_response = << >>
    /\ tenants = << >>
    /\ WEBHOOK_SECRET = Some(RealSecret)
    /\ tc = TcIdle
    /\ drainer = [ d \in Drainers |-> DrainerIdle ]
    /\ ack = NoAck
    /\ handled = << >>
    /\ ops = [ n |-> 0, lost |-> 0 ]
    /\ deliveries = << >>
    /\ codec = CodecIdle
    /\ deleted = {}
    /\ race = RaceIdle
    /\ guard = GuardIdle
    /\ auth = AuthIdle
    /\ sync_queue = << >>
    /\ stats = StatsIdle
    /\ schema = SchemaIdle
    /\ userWorkspace = {}
    /\ setup = SetupIdle

ReasonArgs == { Some(x) : x \in Reasons } \cup { UNDEFINED }

TenantManage ==
    \E id \in WsIds, reason \in ReasonArgs, raises \in BOOLEAN :
        TenantManageDelete(id, reason, raises)

NextSaas ==
    \/ Tick
    \/ Commands
    \/ TenantManage

SpecSaas == InitSaas /\ [][NextSaas]_vars


\* What is stored for a reason argument: nothing for a reason left out
Stored(reason) == IF reason = UNDEFINED THEN NULL ELSE reason

\* C16: a disable that succeeds on an enabled tenant (as the tenant is after
\* a disable and an enable) leaves it disabled, and the reason stored is the
\* one this disable was given: none when it was given none.
C16_LastReasonStored ==
    [][ \A id \in WsIds, reason \in ReasonArgs, raises \in BOOLEAN :
          ( /\ Exists(workspace, id)
            /\ ~workspace[id].isDisabled
            /\ SaasDisableTenant(id, reason, raises) )
              => /\ workspace'[id].isDisabled
                 /\ workspace'[id].disabledReason = Stored(reason) ]_vars

\* C17: a disable of a tenant that is disabled succeeds, leaves it disabled
\* and stores the reason this disable was given in place of the old one; an
\* enable of a tenant that is enabled succeeds and leaves it enabled.
C17_Idempotent ==
    [][ \A id \in WsIds :
          /\ ( Exists(workspace, id) /\ workspace[id].isDisabled )
               => \A reason \in ReasonArgs :
                    /\ disableTenant(workspace, webhook_queue, http_requests,
                                     webhook_config, now, id, reason, FALSE).ok
                    /\ \A raises \in BOOLEAN :
                         SaasDisableTenant(id, reason, raises)
                           => /\ workspace'[id].isDisabled
                              /\ workspace'[id].disabledReason = Stored(reason)
          /\ ( Exists(workspace, id) /\ ~workspace[id].isDisabled )
               => /\ enableTenant(workspace, webhook_queue, http_requests,
                                  webhook_config, now, id, FALSE).ok
                  /\ \A raises \in BOOLEAN :
                       SaasEnableTenant(id, raises)
                         => /\ Exists(workspace', id)
                            /\ ~workspace'[id].isDisabled ]_vars

\* C18: a tenant whose deletion an endpoint has confirmed is never enabled
\* (active) again.
C18_DeleteIsIrreversible ==
    \A id \in deleted : ~( Exists(workspace, id) /\ ~workspace[id].isDisabled )


\* tenant-create alone, on a data plane that may already have a workspace
NextSignup ==
    \/ Tick
    \/ TenantCreate

SpecSignup == InitSaas /\ [][NextSignup]_vars

\* C19: when a tenant-create request for a subdomain that a workspace already
\* has ends after the CRM refused to create the workspace, it leaves no
\* tenant row for that subdomain behind.
C19_DuplicateCreatesNothing ==
    [][ ( /\ tc.pc = "called"
          /\ tc.crm = NULL
          /\ SubdomainTaken(workspace, tc.subdomain)
          /\ tc'.pc = "idle" )
            => \A i \in DOMAIN tenants' :
                  tenants'[i].subdomain # tc.subdomain ]_vars


-----------------------------------------------------------------------------
(* tenant-create, two requests at the same time. Every await of the handler,
   and of the createTenant it calls on the CRM, is a step of its own; a
   request ends at the status it is answered with. *)

RaceSubdomains == Subdomains \cup { "beta" }

\* The INSERT without the UNIQUE constraint on subdomain
InsertTenantUnchecked(tn, subdomain, t) ==
    [ ok |-> TRUE, tenants |-> Append(tn, TenantRow(subdomain, t)) ]

\* .from('tenants').insert({..., subdomain, status: 'pending'}) on
\* crm.tenants, subdomain TEXT UNIQUE NOT NULL: the row, or tenantError
InsertTenant(tn, subdomain, t) ==
    IF \E i \in DOMAIN tn : tn[i].subdomain = subdomain
    THEN [ ok |-> FALSE, tenants |-> tn ]
    ELSE [ ok |-> TRUE, tenants |-> Append(tn, TenantRow(subdomain, t)) ]

\* core.workspace (WorkspaceEntity), subdomain globally unique: whether the
\* INSERT of a row with the subdomain is refused
WorkspaceSubdomainConflict(ws, subdomain) == SubdomainTaken(ws, subdomain)

\* workspaceRepository.save(workspace) of a new workspace: the INSERT into
\* core.workspace and its trigger
SaveNewWorkspace(ws, q, reqs, cfg, t, subdomain, raises) ==
    IF WorkspaceSubdomainConflict(ws, subdomain)
    THEN Failed(ws, q, reqs)
    ELSE LET id == FreshId(ws)
             savedWorkspace == WsRow(subdomain)
         IN  Done(id, [ws EXCEPT ![id] = savedWorkspace],
                  notify_workspace_created(q, reqs, cfg, t, id, savedWorkspace,
                                           raises))

RaceUnchanged ==
    UNCHANGED << now, setup, userWorkspace, schema, stats, auth, guard, codec, deleted, webhook_config, WEBHOOK_SECRET, tc,
                 drainer, ack >>

DataPlaneUnchanged ==
    UNCHANGED << workspace, webhook_queue, http_requests, http_response,
                 handled, ops, deliveries >>

\* Lines 73-85: the row with the subdomain is looked for; 409 if there is one
RaceCheck(c, subdomain) ==
    /\ race[c].pc = "idle"
    /\ race' = [ race EXCEPT ![c] =
                   [ TcIdle EXCEPT
                       !.pc = IF \E i \in DOMAIN tenants :
                                    tenants[i].subdomain = subdomain
                              THEN "409" ELSE "checked",
                       !.subdomain = subdomain ] ]
    /\ UNCHANGED << tenants, sync_queue >>
    /\ RaceUnchanged
    /\ DataPlaneUnchanged

\* Lines 87-110: the INSERT; 500 on tenantError
RaceInsert(c) ==
    LET r == InsertTenant(tenants, race[c].subdomain, now)
    IN  /\ race[c].pc = "checked"
        /\ tenants' = r.tenants
        /\ race' = [ race EXCEPT
                       ![c].pc = IF r.ok THEN "inserted" ELSE "500",
                       ![c].tenant = IF r.ok THEN Len(r.tenants) ELSE 0 ]
        /\ sync_queue' = IF r.ok
                         THEN queue_sync(sync_queue, "create_tenant",
                                         Len(r.tenants))
                         ELSE sync_queue
        /\ RaceUnchanged
        /\ DataPlaneUnchanged

\* createTenant, lines 310-317: findOne by subdomain; the throw makes the
\* CRM answer without a tenant
RaceFindWorkspace(c) ==
    /\ race[c].pc = "inserted"
    /\ race' = [ race EXCEPT
                   ![c].pc = IF SubdomainTaken(workspace, race[c].subdomain)
                             THEN "called" ELSE "saving" ]
    /\ UNCHANGED << tenants, sync_queue >>
    /\ RaceUnchanged
    /\ DataPlaneUnchanged

\* createTenant, lines 325-334: the workspace is saved
RaceSaveWorkspace(c, raises) ==
    LET r == SaveNewWorkspace(workspace, webhook_queue, http_requests,
                              webhook_config, now, race[c].subdomain, raises)
    IN  /\ race[c].pc = "saving"
        /\ ops.n < MaxOps
        /\ SubdomainTaken(workspace, race[c].subdomain)
              \/ FreshIds(workspace) # {}
        /\ Commit(r)
        /\ race' = [ race EXCEPT ![c].pc = "called", ![c].crm = r.id ]
        /\ UNCHANGED << tenants, sync_queue >>
        /\ RaceUnchanged

\* Lines 155-213: the CRM's answer is applied and 201 is answered. A request
\* made of the CRM itself has no row of crm.tenants: the controller answers.
RaceFinish(c) ==
    /\ race[c].pc = "called"
    /\ tenants' = IF race[c].crm # NULL /\ race[c].tenant # 0
                  THEN ActivateById(tenants, race[c].tenant, race[c].crm, now)
                  ELSE tenants
    /\ sync_queue' = IF race[c].tenant = 0 THEN sync_queue
                     ELSE IF race[c].crm # NULL
                     THEN SyncCompleted(sync_queue, race[c].tenant)
                     ELSE SyncFailed(sync_queue, race[c].tenant)
    /\ race' = [ race EXCEPT
                   ![c].pc = IF race[c].tenant # 0 THEN "201" ELSE "answered" ]
    /\ RaceUnchanged
    /\ DataPlaneUnchanged

\* POST /saas/tenants made of the CRM itself: createTenant, lines 310-317
RaceCallCrm(c, subdomain) ==
    /\ race[c].pc = "idle"
    /\ race' = [ race EXCEPT ![c] =
                   [ TcIdle EXCEPT
                       !.pc = IF SubdomainTaken(workspace, subdomain)
                              THEN "called" ELSE "saving",
                       !.subdomain = subdomain ] ]
    /\ UNCHANGED << tenants, sync_queue >>
    /\ RaceUnchanged
    /\ DataPlaneUnchanged

NextRace ==
    \/ ConfigureWebhook
    \/ \E c \in Creators, s \in RaceSubdomains : RaceCheck(c, s)
    \/ \E c \in Creators : RaceInsert(c)
    \/ \E c \in Creators : RaceFindWorkspace(c)
    \/ \E c \in Creators, raises \in BOOLEAN : RaceSaveWorkspace(c, raises)
    \/ \E c \in Creators : RaceFinish(c)
    \/ \E c \in Creators, s \in RaceSubdomains : RaceCallCrm(c, s)
    \/ \E i \in DOMAIN http_requests : Deliver(i)

SpecRace == Init /\ [][NextRace]_vars

\* C20: in every step of concurrent create requests, no two rows of
\* crm.tenants and no two workspaces share a subdomain, every row and every
\* workspace keeps the subdomain it was created with, and of the requests that
\* ask for one subdomain at most one creates a row and at most one creates a
\* workspace.
C20_SubdomainUniqueAndImmutable ==
    [][ /\ \A i, j \in DOMAIN tenants' :
              tenants'[i].subdomain = tenants'[j].subdomain => i = j
        /\ \A i \in DOMAIN tenants :
              /\ i \in DOMAIN tenants'
              /\ tenants'[i].subdomain = tenants[i].subdomain
        /\ \A a, b \in WsIds :
              ( /\ workspace'[a].exists
                /\ workspace'[b].exists
                /\ workspace'[a].subdomain = workspace'[b].subdomain ) => a = b
        /\ \A a \in WsIds :
              workspace[a].exists =>
                  /\ workspace'[a].exists
                  /\ workspace'[a].subdomain = workspace[a].subdomain
        /\ \A c1, c2 \in Creators :
              ( /\ c1 # c2
                /\ race'[c1].pc # "idle"
                /\ race'[c2].pc # "idle"
                /\ race'[c1].subdomain = race'[c2].subdomain )
                  => /\ race'[c1].tenant = 0 \/ race'[c2].tenant = 0
                     /\ race'[c1].crm = NULL \/ race'[c2].crm = NULL ]_vars

\* Two requests for one subdomain both passed the check of lines 73-85; the
\* INSERT of one was refused and the other holds the row.
C20_Witness ==
    \E c1, c2 \in Creators :
        /\ c1 # c2
        /\ race[c1].subdomain = race[c2].subdomain
        /\ race[c1].pc = "500"
        /\ race[c2].tenant # 0
        /\ tenants[race[c2].tenant].subdomain = race[c2].subdomain


-----------------------------------------------------------------------------
(* SaasAdminKeyGuard in front of SaasAdminController: every route of /saas
   runs canActivate first *)

\* a ^ b and a | b of two char codes
RECURSIVE BitXor(_, _)
BitXor(a, b) ==
    IF a = 0 /\ b = 0 THEN 0
    ELSE (((a % 2) + (b % 2)) % 2) + 2 * BitXor(a \div 2, b \div 2)

RECURSIVE BitOr(_, _)
BitOr(a, b) ==
    IF a = 0 /\ b = 0 THEN 0
    ELSE (IF a % 2 = 1 \/ b % 2 = 1 THEN 1 ELSE 0)
             + 2 * BitOr(a \div 2, b \div 2)

\* The loop of secureCompare from index i on: result |= a[i] ^ b[i]
RECURSIVE CompareFrom(_, _, _, _)
CompareFrom(a, b, i, result) ==
    IF i > Len(a) THEN result
    ELSE CompareFrom(a, b, i + 1,
                     BitOr(result, BitXor(CharCode(a[i]), CharCode(b[i]))))

\* secureCompare without the check of the lengths: the characters of a only
secureComparePrefix(a, b) ==
    Len(a) <= Len(b) /\ CompareFrom(a, SubSeq(b, 1, Len(a)), 1, 0) = 0

secureCompare(a, b) ==
    IF Len(a) # Len(b) THEN FALSE
    ELSE CompareFrom(a, b, 1, 0) = 0

MissingHeader == "Missing x-saas-admin-key header"
KeyNotConfigured == "SaaS Admin Key not configured on server"
InvalidKey == "Invalid SaaS Admin Key"

\* canActivate: the exception it throws, or NULL when it returns true
canActivate(providedKey, saasAdminKey) ==
    IF Falsy(providedKey) THEN Some(MissingHeader)
    ELSE IF Falsy(saasAdminKey) THEN Some(KeyNotConfigured)
    ELSE IF ~secureCompare(providedKey[1], saasAdminKey[1])
         THEN Some(InvalidKey)
    ELSE NULL

\* What SAAS_ADMIN_KEY may be on a server, and what a request may carry: no
\* header, an empty one, the key, a key of the same length that differs in
\* the last or in the first character, a prefix of the key, the key and more
AdminKeys == { NULL, Some(<< >>), Some(<< "s", "k" >>) }
ProvidedKeys ==
    { NULL, Some(<< >>), Some(<< "s", "k" >>), Some(<< "s", "x" >>),
      Some(<< "x", "k" >>), Some(<< "s" >>), Some(<< "s", "k", "k" >>) }

InitGuard ==
    /\ now = 0
    /\ workspace \in GivenWorkspaces
    /\ webhook_config = [ url |-> Some(ConfiguredUrl), secret |-> RealSecret ]
    /\ webhook_queue = << >>
    /\ http_requests = << >>
    /\ http_response = << >>
    /\ tenants = << >>
    /\ WEBHOOK_SECRET = Some(RealSecret)
    /\ tc = TcIdle
    /\ drainer = [ d \in Drainers |-> DrainerIdle ]
    /\ ack = NoAck
    /\ handled = << >>
    /\ ops = [ n |-> 0, lost |-> 0 ]
    /\ deliveries = << >>
    /\ codec = CodecIdle
    /\ deleted = {}
    /\ race = RaceIdle
    /\ \E key \in AdminKeys : guard = [ GuardIdle EXCEPT !.SAAS_ADMIN_KEY = key ]
    /\ auth = AuthIdle
    /\ sync_queue = << >>
    /\ stats = StatsIdle
    /\ schema = SchemaIdle
    /\ userWorkspace = {}
    /\ setup = SetupIdle

\* A request for a route of /saas reaches the guard
Guard(providedKey) ==
    LET thrown == canActivate(providedKey, guard.SAAS_ADMIN_KEY)
    IN  /\ guard' = [ guard EXCEPT !.providedKey = providedKey,
                                   !.isSaasAdmin = thrown = NULL,
                                   !.error = thrown ]
        /\ UNCHANGED << now, userWorkspace, schema, stats, sync_queue, auth, setup, codec, deleted, race, workspace, webhook_config,
                        webhook_queue, http_requests, http_response, tenants,
                        WEBHOOK_SECRET, tc, drainer, ack, handled, ops,
                        deliveries >>

\* The route's handler runs for the request the guard has let through
Route ==
    /\ guard.isSaasAdmin
    /\ Commands

NextGuard ==
    \/ \E providedKey \in ProvidedKeys : Guard(providedKey)
    \/ Route

SpecGuard == InitGuard /\ [][NextGuard]_vars

\* The state the Command API works on
TenantState ==
    << workspace, webhook_queue, http_requests, deliveries, deleted, ops >>

\* C21: a request is let through by the guard only when its x-saas-admin-key
\* is present, the server's SAAS_ADMIN_KEY is configured and the two are the
\* same string; a step in which no such request is at the controller leaves
\* all tenant state unchanged.
C21_OnlyTheAdminKey ==
    [][ /\ guard'.isSaasAdmin =>
              /\ guard'.providedKey \notin { NULL, Some(<< >>) }
              /\ guard'.SAAS_ADMIN_KEY \notin { NULL, Some(<< >>) }
              /\ guard'.providedKey = guard'.SAAS_ADMIN_KEY
        /\ ~guard'.isSaasAdmin => guard'.error # NULL
        /\ ( \/ guard.providedKey # guard.SAAS_ADMIN_KEY
             \/ guard.SAAS_ADMIN_KEY \in { NULL, Some(<< >>) } )
              => TenantState' = TenantState ]_vars

\* A request with a wrong key of the right length was turned away after a
\* request with the key had run a command
C21_Witness ==
    /\ guard.providedKey = Some(<< "s", "x" >>)
    /\ guard.error = Some(InvalidKey)
    /\ ops.n > 0


-----------------------------------------------------------------------------
(* crm-webhook and what it answers: tenants of two subdomains, and requests
   that carry a signature made with the secret, no signature, or no payload *)

\* The request with a signature made with the secret over its body
SignBody(r, t) ==
    [ r EXCEPT !.signature =
        Some([ timestamp |-> t, sig |-> Hmac(RealSecret, t, r.body) ]) ]

\* The request with another event type, signed again
WithEvent(r, e, t) ==
    SignBody([ r EXCEPT !.body.event = Some(e), !.event_header = Some(e) ], t)

Alias(e) ==
    IF e = "tenant.disabled" THEN "tenant.subscription.cancelled"
                             ELSE "tenant.subscription.updated"

AnswerRequests(t) ==
    LET sent == { SignBody(SenderRequest(x[1], x[2], t), t) :
                    x \in UNION { EventPayloads(s, t) : s \in RaceSubdomains } }
        some == { r \in sent : r.body.event = Some("tenant.created") }
        alias == { WithEvent(r, Alias(r.body.event[1]), t) :
                     r \in { q \in sent :
                                q.body.event \in { Some("tenant.disabled"),
                                                   Some("tenant.enabled") } } }
    IN  sent \cup alias
             \cup { [ r EXCEPT !.signature = NULL ] : r \in some }
             \cup { SignBody([ r EXCEPT !.body.payload = NULL ], t) : r \in some }

NextAnswer ==
    \/ \E c \in Creators, s \in RaceSubdomains : RaceCheck(c, s)
    \/ \E c \in Creators : RaceInsert(c)
    \/ \E req \in AnswerRequests(now) : Post(req)

SpecAnswer == Init /\ [][NextAnswer]_vars

\* C22: a request that carries the sender's signature, an event type and a
\* payload is answered 200 by crm-webhook, whatever the tenants are.
C22_VerifiedAndParsedIsOk ==
    \A req \in AnswerRequests(now) :
        ( /\ WEBHOOK_SECRET = Some(RealSecret)
          /\ Genuine(req, WEBHOOK_SECRET)
          /\ SignatureGate(req, WEBHOOK_SECRET, now) = 0
          /\ EventOf(req) # "missing"
          /\ req.body.payload # NULL )
            => HandleWebhook(tenants, req, WEBHOOK_SECRET, now).status = 200

\* Event types the switch of crm-webhook has a case for
KnownEvents ==
    { "tenant.created", "tenant.disabled", "tenant.enabled", "tenant.deleted" }

\* C23: a request that carries a valid signature, a payload and an event
\* type crm-webhook has no case for is answered 200 with every row of
\* crm.tenants as it was, and the step in which a request with such an event
\* type is served changes nothing besides the record of the answer.
C23_UnknownEventIsAcknowledged ==
    /\ [] \A req \in Arrivals(now) :
            LET r == HandleWebhook(tenants, req, WEBHOOK_SECRET, now)
            IN  ( /\ WEBHOOK_SECRET = Some(RealSecret)
                  /\ Genuine(req, WEBHOOK_SECRET)
                  /\ SignatureGate(req, WEBHOOK_SECRET, now) = 0
                  /\ req.body.payload # NULL
                  /\ EventOf(req) \notin KnownEvents \cup { "missing" } )
                    => r.status = 200 /\ r.tenants = tenants
    /\ [][ ( /\ ack' # ack
             /\ ack'.event \notin KnownEvents \cup { "missing" } )
               => UNCHANGED << now, workspace, webhook_config, webhook_queue,
                               http_requests, http_response, tenants,
                               WEBHOOK_SECRET, tc, drainer, handled, ops,
                               deliveries, codec, deleted, race,
                               setup, userWorkspace, schema, stats, sync_queue, auth, guard >> ]_vars

\* crm-webhook has acknowledged a signed tenant.renamed while crm.tenants
\* held a tenant
C23_Witness ==
    /\ ack.event = "tenant.renamed"
    /\ ack.valid
    /\ ack.status = 200
    /\ WEBHOOK_SECRET = Some(RealSecret)
    /\ tenants # << >>


-----------------------------------------------------------------------------
(* TenantWebhookController, POST /webhooks/tenant of the CRM: the events an
   external system (billing) sends about a workspace *)

DisabledViaWebhook == "Disabled via webhook"

\* workspace.subdomain ILIKE %search%, for the search terms of SearchTerms
ILike(subdomain, search) == search = subdomain

\* resolveTenantId: data.tenantId, or the first workspace the search for
\* data.tenantEmail finds, or null
resolveTenantId(ws, data) ==
    IF data.tenantId # NULL THEN data.tenantId
    ELSE IF data.tenantEmail # NULL
    THEN LET found == { id \in WsIds : /\ ws[id].exists
                                       /\ ILike(ws[id].subdomain,
                                                data.tenantEmail[1]) }
         IN  IF found # {} THEN Some(CHOOSE id \in found : TRUE) ELSE NULL
    ELSE NULL

\* What the handler answers with, and what it leaves in the database
Answer(status, r) == [ status |-> status, result |-> r ]

handleTenantDisabled(ws, q, reqs, cfg, t, data, raises) ==
    LET tenantId == resolveTenantId(ws, data)
    IN  IF tenantId = NULL THEN Answer(400, Failed(ws, q, reqs))
        ELSE LET r == disableTenant(ws, q, reqs, cfg, t, tenantId[1],
                                    IF data.reason = NULL
                                    THEN Some(DisabledViaWebhook)
                                    ELSE data.reason,
                                    raises)
             IN  Answer(IF r.ok THEN 200 ELSE 500, r)

handleTenantEnabled(ws, q, reqs, cfg, t, data, raises) ==
    LET tenantId == resolveTenantId(ws, data)
    IN  IF tenantId = NULL THEN Answer(400, Failed(ws, q, reqs))
        ELSE LET r == enableTenant(ws, q, reqs, cfg, t, tenantId[1], raises)
             IN  Answer(IF r.ok THEN 200 ELSE 500, r)

\* The switch of handleWebhook without the two subscription cases
RouteEventPlain(ws, q, reqs, cfg, t, event, data, raises) ==
    CASE event = "tenant.disabled" ->
             handleTenantDisabled(ws, q, reqs, cfg, t, data, raises)
      [] event = "tenant.enabled" ->
             handleTenantEnabled(ws, q, reqs, cfg, t, data, raises)
      [] OTHER -> Answer(200, Failed(ws, q, reqs))

\* Lines 97-116: switch (event); tenant.user.removed and the default case
\* answer without touching the database
RouteEvent(ws, q, reqs, cfg, t, event, data, raises) ==
    CASE event \in { "tenant.disabled", "tenant.subscription.cancelled" } ->
             handleTenantDisabled(ws, q, reqs, cfg, t, data, raises)
      [] event \in { "tenant.enabled", "tenant.subscription.updated" } ->
             handleTenantEnabled(ws, q, reqs, cfg, t, data, raises)
      [] OTHER -> Answer(200, Failed(ws, q, reqs))

\* Lines 84-94: verifySignature on the raw body; what it throws, a missing
\* header (a TypeError of split) included, or Valid
Verification(secret, rawBody, signature, t) ==
    IF signature = NULL THEN "TypeError"
    ELSE WebhookSignatureService_verifySignature(secret, rawBody,
                                                 signature[1], t)

\* handleWebhook, given what the verification of lines 84-94 has made
handleWebhook(ws, q, reqs, cfg, t, verdict, event, data, raises) ==
    IF verdict # Valid
    THEN Answer(403, Failed(ws, q, reqs))
    ELSE RouteEvent(ws, q, reqs, cfg, t, event, data, raises)

\* The CRM's WEBHOOK_SECRET and the raw body of the requests
InboundSecret == << "k" >>
RawBody == << "{", "}" >>

InboundEvents ==
    { "tenant.disabled", "tenant.enabled", "tenant.subscription.cancelled",
      "tenant.subscription.updated", "tenant.user.removed", "tenant.renamed" }

SearchTerms == Subdomains \cup { "nobody" }

\* data of a request: the tenant by id with and without a reason, by a search
\* term that finds it or finds nothing, an id no workspace has, nothing
InboundData ==
    LET D(id, mail, reason) ==
            [ tenantId |-> id, tenantEmail |-> mail, reason |-> reason ]
    IN  { D(Some(id), NULL, reason) :
            id \in WsIds, reason \in { NULL, Some("non-payment") } }
        \cup { D(NULL, Some(x), NULL) : x \in SearchTerms }
        \cup { D(NULL, NULL, NULL) }

\* The header generateSignature makes of the raw body at each time, with
\* the CRM's secret and with another one
SignedAt ==
    [ t \in 0..MaxTime |->
        generateSignature(NULL, RawBody, Some(InboundSecret), t).header ]
ForgedAt ==
    [ t \in 0..MaxTime |->
        generateSignature(NULL, RawBody, Some(<< "s" >>), t).header ]

\* The x-webhook-signature headers a request comes with: none, the one
\* generateSignature makes, one made with another secret
InboundSignatures(t) == { NULL, Some(SignedAt[t]), Some(ForgedAt[t]) }

InitAlias ==
    /\ now = 0
    /\ workspace \in GivenWorkspaces
    /\ webhook_config = [ url |-> Some(ConfiguredUrl), secret |-> RealSecret ]
    /\ webhook_queue = << >>
    /\ http_requests = << >>
    /\ http_response = << >>
    /\ tenants = << >>
    /\ WEBHOOK_SECRET = Some(RealSecret)
    /\ tc = TcIdle
    /\ drainer = [ d \in Drainers |-> DrainerIdle ]
    /\ ack = NoAck
    /\ handled = << >>
    /\ ops = [ n |-> 0, lost |-> 0 ]
    /\ deliveries = << >>
    /\ codec = [ CodecIdle EXCEPT !.secret = Some(InboundSecret) ]
    /\ deleted = {}
    /\ race = RaceIdle
    /\ guard = GuardIdle
    /\ auth = AuthIdle
    /\ sync_queue = << >>
    /\ stats = StatsIdle
    /\ schema = SchemaIdle
    /\ userWorkspace = {}
    /\ setup = SetupIdle

\* POST /webhooks/tenant is served; verdict is what Verification makes of
\* the signature
TenantWebhook(signature, verdict, event, data, raises) ==
    LET a == handleWebhook(workspace, webhook_queue, http_requests,
                           webhook_config, now, verdict, event, data, raises)
    IN  /\ ops.n < MaxOps
        /\ Commit(a.result)
        /\ ack' = [ event |-> event,
                    signed |-> signature # NULL,
                    valid |-> verdict = Valid,
                    status |-> a.status,
                    changed |-> a.result.workspace # workspace ]
        /\ UNCHANGED << now, setup, userWorkspace, schema, stats, sync_queue, auth, guard, codec, race, deleted, webhook_config,
                        tenants, WEBHOOK_SECRET, tc, drainer >>

\* The signed requests crm-webhook gets about the first workspace: the
\* events that disable and enable it, under both names
AliasRequests(t) ==
    { r \in AnswerRequests(t) :
        /\ r.signature # NULL
        /\ r.body.payload # NULL
        /\ r.body.payload[1].subdomain \in { Some(x) : x \in Subdomains }
        /\ r.body.payload[1].crm_workspace_id = Some(1)
        /\ r.body.event[1] \in { "tenant.disabled", "tenant.enabled",
                                  "tenant.subscription.cancelled",
                                  "tenant.subscription.updated" } }

\* The signed tenant.created of the first workspace
CreatedRequests(t) ==
    { r \in AnswerRequests(t) :
        /\ r.signature # NULL
        /\ r.body.payload # NULL
        /\ r.body.payload[1].subdomain \in { Some(x) : x \in Subdomains }
        /\ r.body.payload[1].crm_workspace_id = Some(1)
        /\ r.body.event = Some("tenant.created") }

NextAlias ==
    \/ \E signature \in InboundSignatures(now) :
          LET verdict == Verification(codec.secret, RawBody, signature, now)
          IN  \E event \in InboundEvents, data \in InboundData,
                 raises \in BOOLEAN :
                   TenantWebhook(signature, verdict, event, data, raises)
    \/ \E s \in Subdomains : TcInsert(s)
    \/ \E req \in CreatedRequests(now) : Post(req)

SpecAlias == InitAlias /\ [][NextAlias]_vars

\* TenantWebhookController answers and leaves the database after an event
\* under its subscription name as after the event under its own name
AliasInController ==
    \A verdict \in { Valid, InvalidSignature } :
      \A event \in { "tenant.disabled", "tenant.enabled" } :
        \A data \in InboundData, raises \in BOOLEAN :
            handleWebhook(workspace, webhook_queue, http_requests,
                          webhook_config, now, verdict, Alias(event), data,
                          raises)
              = handleWebhook(workspace, webhook_queue, http_requests,
                              webhook_config, now, verdict, event, data, raises)

\* crm-webhook answers and leaves crm.tenants after a signed event under its
\* subscription name as after the event under its own name
AliasInCrmWebhook ==
    \A req \in AliasRequests(now) :
        EventOf(req) \in { "tenant.disabled", "tenant.enabled" }
            => HandleWebhook(tenants, WithEvent(req, Alias(EventOf(req)), now),
                             WEBHOOK_SECRET, now)
                 = HandleWebhook(tenants, req, WEBHOOK_SECRET, now)

\* C24 as stated: in both receivers tenant.subscription.cancelled has the
\* effect of tenant.disabled and tenant.subscription.updated the effect of
\* tenant.enabled.
C24_AliasesInEveryReceiver == AliasInController /\ AliasInCrmWebhook

\* C24: in TenantWebhookController tenant.subscription.cancelled has the
\* effect of tenant.disabled and tenant.subscription.updated the effect of
\* tenant.enabled, whatever the workspaces and the data are; crm-webhook has
\* no case for the two and answers 200 with crm.tenants as it was.
C24_AliasesInTheController ==
    /\ AliasInController
    /\ \A req \in AliasRequests(now) :
          EventOf(req) \notin KnownEvents
              => HandleWebhook(tenants, req, WEBHOOK_SECRET, now)
                   = [ tenants |-> tenants, status |-> 200 ]

\* A tenant.subscription.cancelled has disabled a workspace, with the reason
\* the controller gives when the data has none
C24_Witness ==
    /\ ack.event = "tenant.subscription.cancelled"
    /\ ack.status = 200
    /\ ack.changed
    /\ \E id \in WsIds :
          /\ workspace[id].exists
          /\ workspace[id].isDisabled
          /\ workspace[id].disabledReason = Some(DisabledViaWebhook)


-----------------------------------------------------------------------------
(* One call of retry_failed_webhooks at a time, on queues whose rows differ
   in tenant, age, due time and attempts *)

\* A queue row about workspace id, created at created_at
BatchRow(status, attempts, next_retry_at, created_at, id) ==
    [ GivenRow(status, attempts, next_retry_at)
        EXCEPT !.created_at = created_at,
               !.payload = Payload(id, [ subdomain |-> "acme" ], Some(0),
                                   Some("non-payment")) ]

\* Failed rows of two tenants, old and new, due and not yet due, with an
\* attempt left and without; a pending row
BatchRows ==
    { BatchRow("failed", DEFAULT_MAX_ATTEMPTS - 1, 0, -1, 1),
      BatchRow("failed", DEFAULT_MAX_ATTEMPTS - 1, 0, 0, 1),
      BatchRow("failed", DEFAULT_MAX_ATTEMPTS - 1, 0, 0, 2),
      BatchRow("failed", DEFAULT_MAX_ATTEMPTS - 1, 1, -1, 1),
      BatchRow("failed", DEFAULT_MAX_ATTEMPTS, 0, -1, 1),
      BatchRow("pending", 0, 0, -1, 2) }

BatchQueues == UNION { [ 1..n -> BatchRows ] : n \in 1..MaxGiven }

InitBatch ==
    /\ now = 0
    /\ workspace = [ id \in WsIds |-> Unused ]
    /\ webhook_config \in
         { [ url |-> Some(DefaultWebhookUrl), secret |-> DefaultSecret ],
           [ url |-> Some(ConfiguredUrl), secret |-> RealSecret ] }
    /\ webhook_queue \in BatchQueues
    /\ http_requests = << >>
    /\ http_response = << >>
    /\ tenants = << >>
    /\ WEBHOOK_SECRET = Some(RealSecret)
    /\ tc = TcIdle
    /\ drainer = [ d \in Drainers |-> DrainerIdle ]
    /\ ack = NoAck
    /\ handled = << >>
    /\ ops = [ n |-> 0, lost |-> 0 ]
    /\ deliveries = [ i \in DOMAIN webhook_queue |->
                        [ origin |-> i, retries |-> 0,
                          failures |-> webhook_queue[i].attempts ] ]
    /\ codec = CodecIdle
    /\ deleted = {}
    /\ race = RaceIdle
    /\ guard = GuardIdle
    /\ auth = AuthIdle
    /\ sync_queue = << >>
    /\ stats = StatsIdle
    /\ schema = SchemaIdle
    /\ userWorkspace = {}
    /\ setup = SetupIdle

NextBatch ==
    \/ Tick
    \/ DrainBegin("d1")
    \/ \E raises \in BOOLEAN : DrainStep("d1", raises)
    \/ DrainEnd("d1")

SpecBatch == InitBatch /\ [][NextBatch]_vars

\* The workspace a queue row is about
TenantOf(row) == row.payload.crm_workspace_id

\* C25: every row of core.webhook_queue has attempts <= max_attempts.
C25_AttemptsWithinMax ==
    \A i \in DOMAIN webhook_queue :
        webhook_queue[i].attempts <= webhook_queue[i].max_attempts

\* A row with one attempt left was sent again and the sending failed
C25_Witness ==
    \E i \in DOMAIN webhook_queue :
        /\ webhook_queue[i].attempts = webhook_queue[i].max_attempts - 1
        /\ deliveries[i].retries >= 1
        /\ deliveries[i].failures > webhook_queue[i].attempts

\* C29: while a call of retry_failed_webhooks runs, the rows it has still to
\* send are in the order of created_at wherever two of them are about the
\* same workspace, and no row it has sent was created after a row about the
\* same workspace that it has still to send.
C29_SameTenantInCreationOrder ==
    \A d \in Drainers :
        drainer[d].pc = "loop" =>
            LET c    == drainer[d].cursor
                rest == { c[k] : k \in DOMAIN c }
                done == drainer[d].batch \ rest
                SameTenant(i, j) ==
                    TenantOf(webhook_queue[i]) = TenantOf(webhook_queue[j])
            IN  /\ \A a, b \in DOMAIN c :
                      (a < b /\ SameTenant(c[a], c[b]))
                          => webhook_queue[c[a]].created_at
                                 <= webhook_queue[c[b]].created_at
                /\ \A i \in done, j \in rest :
                      SameTenant(i, j)
                          => webhook_queue[i].created_at
                                 <= webhook_queue[j].created_at

\* The call has sent the older of two rows about one workspace, which is
\* the later one in the table, and has the newer one still to send
C29_Witness ==
    \E i \in drainer["d1"].batch :
        \E k \in DOMAIN drainer["d1"].cursor :
            LET j == drainer["d1"].cursor[k]
            IN  /\ drainer["d1"].pc = "loop"
                /\ \A k2 \in DOMAIN drainer["d1"].cursor :
                      drainer["d1"].cursor[k2] # i
                /\ TenantOf(webhook_queue[i]) = TenantOf(webhook_queue[j])
                /\ webhook_queue[i].created_at < webhook_queue[j].created_at
                /\ i > j

\* C30: a call of retry_failed_webhooks ends only after it has called
\* send_webhook for every row it selected, whether or not sending one of
\* them failed.
C30_FailureDoesNotStopTheBatch ==
    [][ \A d \in Drainers :
          ( drainer[d].pc = "loop" /\ drainer'[d].pc = "idle" )
              => /\ drainer[d].v_count = Cardinality(drainer[d].batch)
                 /\ \A i \in drainer[d].batch : deliveries[i].retries >= 1
      ]_vars

\* The call is over; sending the older row about one workspace failed, and
\* the newer row about another workspace was sent after it
C30_Witness ==
    \E i, j \in drainer["d1"].batch :
        /\ drainer["d1"].pc = "idle"
        /\ TenantOf(webhook_queue[i]) # TenantOf(webhook_queue[j])
        /\ webhook_queue[i].created_at < webhook_queue[j].created_at
        /\ deliveries[i].failures > webhook_queue[i].attempts
        /\ deliveries[i].retries = 1
        /\ deliveries[j].retries = 1

DueRows(q, t) ==
    { i \in DOMAIN q : /\ q[i].status \in { "pending", "failed" }
                       /\ q[i].attempts < q[i].max_attempts
                       /\ q[i].next_retry_at # NULL
                       /\ q[i].next_retry_at[1] <= t }

\* C27: the rows a call of retry_failed_webhooks selects are rows with status
\* pending or failed whose next_retry_at is not after now, all of them up to
\* the batch limit, the oldest first.
C27_DrainTakesDuePendingAndFailed ==
    [][ \A d \in Drainers :
          ( drainer[d].pc = "idle" /\ drainer'[d].pc = "loop" )
              => LET due   == DueRows(webhook_queue, now)
                     batch == drainer'[d].batch
                 IN  /\ batch \subseteq due
                     /\ Cardinality(batch)
                            = IF Cardinality(due) <= BATCH_LIMIT
                              THEN Cardinality(due) ELSE BATCH_LIMIT
                     /\ \A i \in batch, j \in due \ batch :
                            webhook_queue[i].created_at
                                <= webhook_queue[j].created_at
      ]_vars

\* C28: every command that changes what a trigger reports leaves a new row
\* in core.webhook_queue, and every new row has status pending, attempts 0
\* and next_retry_at = now, whether or not the endpoint is configured or
\* reachable.
C28_EnqueuePersistsPending ==
    [][ /\ ops'.lost = ops.lost
        /\ \A i \in DOMAIN webhook_queue' \ DOMAIN webhook_queue :
              /\ webhook_queue'[i].status = "pending"
              /\ webhook_queue'[i].attempts = 0
              /\ webhook_queue'[i].next_retry_at = Some(now)
      ]_vars

C32_DisabledFieldsOnlyWhileDisabled ==
    /\ \A i \in DOMAIN tenants :
          tenants[i].status # "disabled"
              => /\ tenants[i].disabled_at = NULL
                 /\ tenants[i].disabled_reason = NULL
    /\ \A id \in WsIds :
          ( workspace[id].exists /\ ~workspace[id].isDisabled )
              => /\ workspace[id].disabledAt = NULL
                 /\ workspace[id].disabledReason = NULL

\* C33: an update is guarded by the status the row has: when tenant-create
\* applies the CRM's answer, a tenant row that a webhook has set to disabled
\* or deleted in the meantime keeps that status.
C33_LateActivationKeepsNewerStatus ==
    [][ ( tc.pc = "called" /\ tc'.pc = "idle" )
          => \A i \in DOMAIN tenants :
                tenants[i].status \in { "disabled", "deleted" }
                    => tenants'[i].status = tenants[i].status ]_vars

-----------------------------------------------------------------------------
(* SetupController: POST /setup/initialize. The handler runs without
   interruption up to its await of writeEnvFile, whose body is synchronous;
   what follows the await is a step of its own. *)

MaxSetupRequests == 3   \* initialize requests that are made

ALREADY_CONFIGURED  == 403
SETUP_NOT_AVAILABLE == 503
INVALID_SETUP_KEY   == 401
MISSING_FIELDS      == 400
WRITE_FAILED        == 500
CREATED             == 201

\* The bodies of the requests: the key, and the Supabase settings or none
SetupBodies ==
    [ setupKey : { "setup-key", "guess" },
      supabaseUrl : { NULL, Some("https://a.supabase.co"),
                      Some("https://b.supabase.co") } ]

\* Lines 105-134: what initialize throws before it writes, or 0
InitializeChecks(locked, expectedSetupKey, body) ==
    IF locked THEN ALREADY_CONFIGURED
    ELSE IF expectedSetupKey = NULL THEN SETUP_NOT_AVAILABLE
    ELSE IF body.setupKey # expectedSetupKey[1] THEN INVALID_SETUP_KEY
    ELSE IF body.supabaseUrl = NULL THEN MISSING_FIELDS
    ELSE 0

InitSetup ==
    /\ now = 0
    /\ workspace = [ id \in WsIds |-> Unused ]
    /\ webhook_config = [ url |-> Some(DefaultWebhookUrl), secret |-> DefaultSecret ]
    /\ webhook_queue = << >>
    /\ http_requests = << >>
    /\ http_response = << >>
    /\ tenants = << >>
    /\ WEBHOOK_SECRET = NULL
    /\ tc = TcIdle
    /\ drainer = [ d \in Drainers |-> DrainerIdle ]
    /\ ack = NoAck
    /\ handled = << >>
    /\ ops = [ n |-> 0, lost |-> 0 ]
    /\ deliveries = << >>
    /\ codec = CodecIdle
    /\ deleted = {}
    /\ race = RaceIdle
    /\ guard = GuardIdle
    /\ auth = AuthIdle
    /\ sync_queue = << >>
    /\ stats = StatsIdle
    /\ schema = SchemaIdle
    /\ userWorkspace = {}
    /\ \E key \in { NULL, Some("setup-key") } :
          setup = [ SetupIdle EXCEPT !.SETUP_KEY = key ]

SetupUnchanged ==
    UNCHANGED << now, userWorkspace, schema, stats, sync_queue, auth, guard, codec, deleted, race, workspace, webhook_config,
                 webhook_queue, http_requests, http_response, tenants,
                 WEBHOOK_SECRET, tc, drainer, ack, handled, ops, deliveries >>

\* initialize up to `await this.writeEnvFile(envConfig)`; raises: a call of
\* fs in writeEnvFile throws
InitializeBegin(i, body, raises) ==
    LET thrown == InitializeChecks(setup.locked, setup.SETUP_KEY, body)
    IN  /\ setup.req[i].pc \in { "idle", "answered" }
        /\ setup.requests < MaxSetupRequests
        /\ setup' =
             IF thrown # 0
             THEN [ setup EXCEPT !.requests = setup.requests + 1,
                                 !.req[i] = [ pc |-> "answered", status |-> thrown ] ]
             ELSE IF raises
             THEN [ setup EXCEPT !.requests = setup.requests + 1,
                                 !.req[i] = [ pc |-> "answered",
                                              status |-> WRITE_FAILED ] ]
             ELSE [ setup EXCEPT !.requests = setup.requests + 1,
                                 !.env = body.supabaseUrl,
                                 !.req[i] = [ pc |-> "written", status |-> 0 ] ]
        /\ SetupUnchanged

\* Lines 165-188: createLockFile and the answer; raises: writeFileSync throws
InitializeEnd(i, raises) ==
    /\ setup.req[i].pc = "written"
    /\ setup' =
         IF raises
         THEN [ setup EXCEPT !.req[i] = [ pc |-> "answered",
                                          status |-> WRITE_FAILED ] ]
         ELSE [ setup EXCEPT !.locked = TRUE,
                             !.successes = setup.successes + 1,
                             !.req[i] = [ pc |-> "answered", status |-> CREATED ] ]
    /\ SetupUnchanged

NextSetup ==
    \/ \E i \in Installers, body \in SetupBodies, raises \in BOOLEAN :
          InitializeBegin(i, body, raises)
    \/ \E i \in Installers, raises \in BOOLEAN : InitializeEnd(i, raises)

SpecSetup == InitSetup /\ [][NextSetup]_vars

\* C34: at most one initialize request succeeds, and once the lock file
\* exists every request that is answered is answered 403 and .env.local is
\* written no more.
C34_SetupRunsOnce ==
    /\ [](setup.successes <= 1)
    /\ [][ setup.locked
             => /\ setup'.env = setup.env
                /\ \A i \in Installers :
                      setup'.req[i] # setup.req[i]
                          => setup'.req[i].status = ALREADY_CONFIGURED ]_vars

-----------------------------------------------------------------------------
(* TenantAdminService.deleteTenant with the links and the schema of the
   workspace *)

Users == { "u1", "u2" }

\* userWorkspaceRepository.delete({ workspaceId: tenantId })
DeleteLinks(links, id) == { l \in links : l.workspaceId # id }

\* deleteTenant that logs the error of DROP SCHEMA and throws it again: the
\* workspace row stays and the caller gets the error
TenantAdminService_deleteTenantStrict(ws, links, sch, q, reqs, cfg, t, id, dropFails, raises) ==
    IF ~Exists(ws, id)
    THEN [ result |-> Failed(ws, q, reqs), userWorkspace |-> links,
           schema |-> sch ]
    ELSE IF dropFails
    THEN [ result |-> Failed(ws, q, reqs),
           userWorkspace |-> DeleteLinks(links, id),
           schema |-> [ sch EXCEPT !.warnings = sch.warnings \cup { id } ] ]
    ELSE [ result |-> deleteTenant(ws, q, reqs, cfg, t, id, raises),
           userWorkspace |-> DeleteLinks(links, id),
           schema |-> [ sch EXCEPT !.names = sch.names \ { id } ] ]

\* TenantAdminService.deleteTenant(tenantId): the links are deleted, DROP
\* SCHEMA IF EXISTS ... CASCADE is run and its error only logged, the
\* workspace row is deleted (its trigger reports it)
TenantAdminService_deleteTenant(ws, links, sch, q, reqs, cfg, t, id, dropFails, raises) ==
    IF ~Exists(ws, id)
    THEN [ result |-> Failed(ws, q, reqs), userWorkspace |-> links,
           schema |-> sch ]
    ELSE [ result |-> deleteTenant(ws, q, reqs, cfg, t, id, raises),
           userWorkspace |-> DeleteLinks(links, id),
           schema |-> IF dropFails
                      THEN [ sch EXCEPT !.warnings = sch.warnings \cup { id } ]
                      ELSE [ sch EXCEPT !.names = sch.names \ { id } ] ]

\* The given workspaces, each with its schema and at least one linked user
InitDelete ==
    /\ now = 0
    /\ workspace \in GivenWorkspaces
    /\ webhook_config \in
         { [ url |-> Some(DefaultWebhookUrl), secret |-> DefaultSecret ],
           [ url |-> Some(ConfiguredUrl), secret |-> RealSecret ] }
    /\ webhook_queue = << >>
    /\ http_requests = << >>
    /\ http_response = << >>
    /\ tenants = << >>
    /\ WEBHOOK_SECRET = Some(RealSecret)
    /\ tc = TcIdle
    /\ drainer = [ d \in Drainers |-> DrainerIdle ]
    /\ ack = NoAck
    /\ handled = << >>
    /\ ops = [ n |-> 0, lost |-> 0 ]
    /\ deliveries = << >>
    /\ codec = CodecIdle
    /\ deleted = {}
    /\ race = RaceIdle
    /\ guard = GuardIdle
    /\ auth = AuthIdle
    /\ sync_queue = << >>
    /\ stats = StatsIdle
    /\ setup = SetupIdle
    /\ \E members \in (SUBSET Users) \ { {} } :
          userWorkspace = { [ userId |-> u, workspaceId |-> id ] :
                              u \in members,
                              id \in { w \in WsIds : workspace[w].exists } }
    /\ schema = [ names |-> { w \in WsIds : workspace[w].exists },
                  warnings |-> {} ]

\* DELETE /saas/tenants/:tenantId; dropFails: DROP SCHEMA raises
SaasDeleteTenantCascade(id, dropFails, raises) ==
    LET r == TenantAdminService_deleteTenant(
                 workspace, userWorkspace, schema, webhook_queue,
                 http_requests, webhook_config, now, id, dropFails, raises)
    IN  /\ ops.n < MaxOps
        /\ Commit(r.result)
        /\ userWorkspace' = r.userWorkspace
        /\ schema' = r.schema
        /\ deleted' = IF r.result.ok THEN deleted \cup { id } ELSE deleted
        /\ UNCHANGED << now, setup, stats, sync_queue, auth, guard, codec, race, webhook_config,
                        tenants, WEBHOOK_SECRET, tc, drainer, ack >>

NextDelete ==
    \/ Tick
    \/ \E id \in WsIds, reason \in ReasonArgs, raises \in BOOLEAN :
          SaasDisableTenant(id, reason, raises)
    \/ \E id \in WsIds, raises \in BOOLEAN : SaasEnableTenant(id, raises)
    \/ \E id \in WsIds, dropFails \in BOOLEAN, raises \in BOOLEAN :
          SaasDeleteTenantCascade(id, dropFails, raises)

SpecDelete == InitDelete /\ [][NextDelete]_vars

\* C35: when DROP SCHEMA fails during a delete, the failure is logged and
\* nothing else changes for it: the workspace row is deleted, so are all its
\* user-workspace links, and the caller is answered success.
C35_SchemaDropFailureIsOnlyLogged ==
    [][ \A id \in WsIds :
          ( /\ workspace[id].exists
            /\ id \in schema'.warnings \ schema.warnings )
              => /\ ~workspace'[id].exists
                 /\ \A l \in userWorkspace' : l.workspaceId # id
                 /\ id \in deleted' ]_vars

\* The drop failed for a workspace that had a linked user: the schema is
\* still there, the workspace and the link are gone, the caller was answered
C35_Witness ==
    \E id \in WsIds :
        /\ id \in schema.warnings
        /\ id \in schema.names
        /\ id \in deleted
        /\ ~workspace[id].exists
        /\ userWorkspace = {}
        /\ ops.n = 1

-----------------------------------------------------------------------------
(* TenantAdminService.getGlobalStats: three count queries sent together
   (Promise.all), each on a connection of its own and outside any
   transaction, then the answer *)

\* workspaceRepository.count()
CountTenants(ws) == Cardinality({ id \in WsIds : ws[id].exists })

\* workspaceRepository.count({ where: { isDisabled: false } })
CountActive(ws) ==
    Cardinality({ id \in WsIds : ws[id].exists /\ ~ws[id].isDisabled })

StatsUnchanged ==
    UNCHANGED << now, setup, userWorkspace, schema, sync_queue, auth, guard, codec, deleted, race,
                 workspace, webhook_config, webhook_queue, http_requests,
                 http_response, tenants, WEBHOOK_SECRET, tc, drainer, ack,
                 handled, ops, deliveries >>

\* GET /saas/stats arrives (began: history, the commands run so far)
StatsBegin ==
    /\ stats.pc \in { "idle", "answered" }
    /\ stats' = [ StatsIdle EXCEPT !.pc = "counting", !.began = ops.n ]
    /\ StatsUnchanged

StatsCountTenants ==
    /\ stats.pc = "counting"
    /\ stats.totalTenants = NULL
    /\ stats' = [ stats EXCEPT !.totalTenants = Some(CountTenants(workspace)) ]
    /\ StatsUnchanged

StatsCountActive ==
    /\ stats.pc = "counting"
    /\ stats.activeTenants = NULL
    /\ stats' = [ stats EXCEPT !.activeTenants = Some(CountActive(workspace)) ]
    /\ StatsUnchanged

StatsCountUsers ==
    /\ stats.pc = "counting"
    /\ stats.totalUsers = NULL
    /\ stats' = [ stats EXCEPT !.totalUsers = Some(Cardinality(userWorkspace)) ]
    /\ StatsUnchanged

\* Lines 410-431: the tier query and the answer
getGlobalStats(totalTenants, activeTenants, totalUsers, ws) ==
    [ totalTenants |-> totalTenants, activeTenants |-> activeTenants,
      disabledTenants |-> totalTenants - activeTenants,
      totalUsers |-> totalUsers,
      tenantsByTier |-> CountTenants(ws) ]

StatsAnswer ==
    /\ stats.pc = "counting"
    /\ stats.totalTenants # NULL
    /\ stats.activeTenants # NULL
    /\ stats.totalUsers # NULL
    /\ stats' = [ stats EXCEPT
                    !.pc = "answered",
                    !.answer = Some(getGlobalStats(stats.totalTenants[1],
                                                   stats.activeTenants[1],
                                                   stats.totalUsers[1],
                                                   workspace)) ]
    /\ StatsUnchanged

NextStats ==
    \/ Commands
    \/ StatsBegin
    \/ StatsCountTenants
    \/ StatsCountActive
    \/ StatsCountUsers
    \/ StatsAnswer

SpecStats == InitSaas /\ [][NextStats]_vars

\* C36: the counts of a stats answer are not negative, the total is the sum
\* of the active and the disabled count, and when no command has run while
\* the request was served they are the counts of the store.
C36_StatsOfOneStoreState ==
    stats.pc = "answered" =>
        LET a == stats.answer[1]
        IN  /\ a.totalTenants = a.activeTenants + a.disabledTenants
            /\ a.totalTenants >= 0
            /\ a.activeTenants >= 0
            /\ a.disabledTenants >= 0
            /\ stats.began = ops.n
                 => /\ a.totalTenants = CountTenants(workspace)
                    /\ a.activeTenants = CountActive(workspace)
                    /\ a.disabledTenants
                           = CountTenants(workspace) - CountActive(workspace)

-----------------------------------------------------------------------------
(* crm.sync_queue: what becomes of a create_tenant operation *)

\* Every request that has begun runs to its end, and requests keep coming
\* while there are subdomains to ask for
SpecSignupFair ==
    /\ SpecSignup
    /\ WF_vars(NextSignup)

\* C38: a create_tenant operation that a finished tenant-create request has
\* left pending in crm.sync_queue is eventually attempted again (its row
\* leaves status pending or counts an attempt), and its tenant does not stay
\* pending forever.
C38_PendingSyncIsRetried ==
    \A k \in 1..Cardinality(Subdomains) :
        []( ( /\ tc.pc = "idle"
              /\ k \in DOMAIN sync_queue
              /\ sync_queue[k].status = "pending" )
            => <>( /\ k \in DOMAIN sync_queue
                   /\ \/ sync_queue[k].status # "pending"
                      \/ sync_queue[k].attempts > 0
                   /\ tenants[sync_queue[k].tenant_id].status # "pending" ) )

-----------------------------------------------------------------------------
(* crm-webhook and requests that do not come from the data plane: any
   payload, under a signature header of the right length *)

\* The payloads: the workspace id is one of two, null, or not there
ForgedPayloads ==
    { [ Payload(1, [ subdomain |-> s ], UNDEFINED, UNDEFINED)
          EXCEPT !.crm_workspace_id = id ] :
        s \in Subdomains, id \in { Some(1), Some(2), NULL, UNDEFINED } }

ForgedRequests(t) ==
    { [ SenderRequest(e, p, t) EXCEPT
          !.signature = Some([ timestamp |-> t,
                               sig |-> [ forged |-> TRUE,
                                         length |-> SHA256_HEX_LENGTH ] ]) ] :
        e \in KnownEvents, p \in ForgedPayloads }

NextForged ==
    \/ Tick
    \/ \E s \in Subdomains : TcInsert(s)
    \/ \E req \in ForgedRequests(now) : Post(req)

SpecForged == Init /\ [][NextForged]_vars

\* C37: a row of crm.tenants has a crm_workspace_id exactly when its status
\* is active or disabled.
C37_LinkedIffActiveOrDisabled ==
    \A i \in DOMAIN tenants :
        tenants[i].crm_workspace_id # NULL
            <=> tenants[i].status \in { "active", "disabled" }

-----------------------------------------------------------------------------
(* POST /auth/supabase/token: SupabaseAuthController.exchangeToken *)

\* The accounts Supabase knows, with the e-mail address as Supabase has it
SupabaseAccounts ==
    { [ supabaseUserId |-> "s1", email |-> "U1@x.io" ],
      [ supabaseUserId |-> "s2", email |-> "u2@x.io" ] }

\* The rows core.user may hold at the start: the e-mail address in lower
\* case, linked to the Supabase account or not yet
GivenUsers ==
    { [ id |-> "u1", email |-> "u1@x.io", supabaseUserId |-> l ] :
        l \in { NULL, Some("s1") } }
    \cup { [ id |-> "u2", email |-> "u2@x.io", supabaseUserId |-> l ] :
             l \in { NULL, Some("s2") } }

\* String.prototype.toLowerCase on the addresses above
toLowerCase(e) == IF e = "U1@x.io" THEN "u1@x.io" ELSE e

\* validateSupabaseToken: the access token of an account gives the auth
\* context, any other token throws (NULL)
validateSupabaseToken(accessToken) ==
    LET known == { a \in SupabaseAccounts : a.supabaseUserId = accessToken }
    IN  IF known = {}
        THEN NULL
        ELSE LET a == CHOOSE x \in known : TRUE
             IN  Some([ supabaseUserId |-> a.supabaseUserId,
                        email |-> toLowerCase(a.email) ])

\* syncUserFromSupabase: the user with this Supabase id, else the user with
\* this e-mail address (now linked to the Supabase id), else a new user
syncUserFromSupabase(users, ctx) ==
    LET byId    == { u \in users : u.supabaseUserId = Some(ctx.supabaseUserId) }
        byEmail == { u \in users : u.email = toLowerCase(ctx.email) }
    IN  IF byId # {}
        THEN [ users |-> users, user |-> CHOOSE u \in byId : TRUE ]
        ELSE IF byEmail # {}
        THEN LET old    == CHOOSE u \in byEmail : TRUE
                 linked == [ old EXCEPT !.supabaseUserId = Some(ctx.supabaseUserId) ]
             IN  [ users |-> (users \ { old }) \cup { linked }, user |-> linked ]
        ELSE LET fresh == CHOOSE id \in Users : \A u \in users : u.id # id
                 new   == [ id |-> fresh, email |-> toLowerCase(ctx.email),
                            supabaseUserId |-> Some(ctx.supabaseUserId) ]
             IN  [ users |-> users \cup { new }, user |-> new ]

\* user.userWorkspaces: the links of one user
UserWorkspaces(links, user) == { l \in links : l.userId = user.id }

\* LoginTokenService.generateLoginToken: a token for this e-mail address and
\* this workspace
generateLoginToken(email, workspaceId) ==
    [ email |-> email, workspaceId |-> workspaceId ]

AuthError(a, code) ==
    [ a EXCEPT !.answer = Some([ status |-> code, workspaceId |-> NULL ]) ]

\* exchangeToken; first is the link that userWorkspaces[0] is, when the
\* user has any
exchangeToken(a, links, body, first) ==
    IF ~a.AUTH_SUPABASE_ENABLED
    THEN AuthError(a, "FORBIDDEN_EXCEPTION")
    ELSE IF body.supabaseAccessToken = NULL
    THEN AuthError(a, "INVALID_INPUT")
    ELSE
    LET supabaseAuthContext == validateSupabaseToken(body.supabaseAccessToken[1])
    IN  IF supabaseAuthContext = NULL
        THEN AuthError(a, "INVALID_INPUT")
        ELSE
        LET synced == syncUserFromSupabase(a.users, supabaseAuthContext[1])
            user   == synced.user
            saved  == [ a EXCEPT !.users = synced.users ]
            targetWorkspaceId ==
                IF body.workspaceId # NULL
                THEN body.workspaceId
                ELSE IF UserWorkspaces(links, user) # {}
                THEN Some(first.workspaceId)
                ELSE NULL
        IN  IF targetWorkspaceId = NULL
            THEN AuthError(saved, "FORBIDDEN_EXCEPTION")
            ELSE [ saved EXCEPT
                     !.loginTokens = @ \cup { generateLoginToken(user.email,
                                                  targetWorkspaceId[1]) },
                     !.answer = Some([ status |-> "200",
                                       workspaceId |-> targetWorkspaceId ]) ]

ExchangeBodies ==
    { [ supabaseAccessToken |-> tok, workspaceId |-> w ] :
        tok \in { NULL, Some("s1"), Some("s2"), Some("expired") },
        w \in { NULL } \cup { Some(id) : id \in WsIds } }

\* The given workspaces, users that were there before Supabase sign-in or
\* came by it, and links of these users to the workspaces that exist
InitAuth ==
    /\ now = 0
    /\ workspace \in GivenWorkspaces
    /\ webhook_config \in
         { [ url |-> Some(DefaultWebhookUrl), secret |-> DefaultSecret ],
           [ url |-> Some(ConfiguredUrl), secret |-> RealSecret ] }
    /\ webhook_queue = << >>
    /\ http_requests = << >>
    /\ http_response = << >>
    /\ tenants = << >>
    /\ WEBHOOK_SECRET = Some(RealSecret)
    /\ tc = TcIdle
    /\ drainer = [ d \in Drainers |-> DrainerIdle ]
    /\ ack = NoAck
    /\ handled = << >>
    /\ ops = [ n |-> 0, lost |-> 0 ]
    /\ deliveries = << >>
    /\ codec = CodecIdle
    /\ deleted = {}
    /\ race = RaceIdle
    /\ guard = GuardIdle
    /\ sync_queue = << >>
    /\ stats = StatsIdle
    /\ setup = SetupIdle
    /\ schema = [ names |-> { w \in WsIds : workspace[w].exists },
                  warnings |-> {} ]
    /\ \E enabled \in BOOLEAN, given \in SUBSET GivenUsers :
          /\ \A u, v \in given : u.id = v.id => u = v
          /\ auth = [ AuthIdle EXCEPT !.AUTH_SUPABASE_ENABLED = enabled,
                                      !.users = given ]
          /\ userWorkspace \in
               SUBSET { [ userId |-> u.id, workspaceId |-> id ] :
                          u \in given,
                          id \in { w \in WsIds : workspace[w].exists } }

\* POST /auth/supabase/token; userWorkspaces[0] is any one of the links of
\* the user, the relation is loaded in no stated order
ExchangeToken(body) ==
    LET ctx  == IF body.supabaseAccessToken = NULL
                THEN NULL
                ELSE validateSupabaseToken(body.supabaseAccessToken[1])
        mine == IF ctx = NULL
                THEN {}
                ELSE UserWorkspaces(userWorkspace,
                         syncUserFromSupabase(auth.users, ctx[1]).user)
    IN
    /\ \E first \in IF mine = {} THEN { NULL } ELSE mine :
          auth' = exchangeToken(auth, userWorkspace, body, first)
    /\ UNCHANGED << now, workspace, webhook_config, webhook_queue,
                    http_requests, http_response, tenants, WEBHOOK_SECRET, tc,
                    drainer, ack, handled, ops, deliveries, codec, deleted,
                    race, setup, userWorkspace, schema, stats, sync_queue,
                    guard >>

NextAuth == \E body \in ExchangeBodies : ExchangeToken(body)

SpecAuth == InitAuth /\ [][NextAuth]_vars

\* C39: a login token is issued for a workspace only to a user that a
\* user-workspace record links to that workspace, also when the request
\* names the workspace itself.
C39_TokenOnlyForLinkedUser ==
    [][ \A t \in auth'.loginTokens \ auth.loginTokens :
            \E u \in auth'.users :
                /\ u.email = t.email
                /\ [ userId |-> u.id, workspaceId |-> t.workspaceId ]
                      \in userWorkspace ]_vars

====
